---- MODULE Spec2Model ----
(***************************************************************************)
(* Radicale WSGI application (radicale/__init__.py): the request gate, the *)
(* principal bootstrap and the method handlers, as a state machine over a  *)
(* small collection tree guarded by the storage's reader/writer lock.      *)
(***************************************************************************)
EXTENDS Integers, Sequences, FiniteSets, TLC

VARIABLES storage, rights, lock, req, started, answered, applied, wsgi

vars == <<storage, rights, lock, req, started, answered, applied,
          wsgi>>

(***************************************************************************)
(* Bounds of the model.                                                    *)
(***************************************************************************)
\* requests served in one behaviour
MaxStarted == 2

\* calls of the WSGI entry point application() in one behaviour
MaxCalls == 3

\* bits of a random.random() value (53 in CPython): it is a multiple of
\* 2^-RandomBits in [0, 1)
RandomBits == 3

\* request threads of the WSGI server
Reqs == {"t1", "t2"}

\* item UIDs and item payload variants
Uids == {1, 2}
Payloads == {1, 2}

(***************************************************************************)
(* Paths.  A sanitized path is the sequence of its segments: "/" is <<>>,  *)
(* "/u/a/b" and "/u/a/b/" are <<"u","a","b">> (discover, the rights        *)
(* backend and posixpath.dirname all work on the stripped path).           *)
(***************************************************************************)
Root == <<>>

\* the collection tree the model stores
Paths == {<<>>, <<"u">>, <<"u", "a">>, <<"u", "b">>,
          <<"u", "a", "a">>, <<"u", "a", "b">>,
          <<"u", "b", "a">>, <<"u", "b", "b">>,
          <<"u", "a", "a", "a">>}

\* storage.sanitize_path("/%s/" % posixpath.dirname(path.strip("/")))
ParentPath(p) == IF Len(p) = 0 THEN p ELSE SubSeq(p, 1, Len(p) - 1)

\* posixpath.basename(path.strip("/"))
BaseName(p) == IF Len(p) = 0 THEN "" ELSE p[Len(p)]

IsPrefix(s, t) == Len(s) <= Len(t) /\ SubSeq(t, 1, Len(s)) = s

\* (to_path + "/").startswith(base_prefix + "/")
StartsWithBase(to_path, base_prefix) == IsPrefix(base_prefix, to_path)

\* to_path[len(base_prefix):]
StripBase(to_path, base_prefix) ==
    SubSeq(to_path, Len(base_prefix) + 1, Len(to_path))

\* children of a stored path, in name order
Kids(p) == IF p = Root THEN << <<"u">> >>
           ELSE IF Len(p) < 3 THEN <<Append(p, "a"), Append(p, "b")>>
           ELSE IF p = <<"u", "a", "a">> THEN <<Append(p, "a")>>
           ELSE << >>

KidSet(p) == {Kids(p)[i] : i \in 1..Len(Kids(p))}

(***************************************************************************)
(* Storage entries: nothing, a collection (tag "" is untagged) or an item. *)
(***************************************************************************)
NoEntry == [kind |-> "none", tag |-> "", meta |-> 0, uid |-> 0, body |-> << >>]

Col(tag, meta) ==
    [kind |-> "col", tag |-> tag, meta |-> meta, uid |-> 0, body |-> << >>]

Item(uid, body) ==
    [kind |-> "item", tag |-> "", meta |-> 0, uid |-> uid, body |-> body]

EmptyStorage == [p \in Paths |-> IF p = Root THEN Col("", 0) ELSE NoEntry]

\* next(Collection.discover(path), None)
Discover(st, p) == IF p \in Paths THEN st[p] ELSE NoEntry

\* item.etag / collection.etag: a function of the content
Etag(st, p) ==
    IF Discover(st, p).kind = "col"
    THEN <<st[p]>> \o [i \in 1..Len(Kids(p)) |-> st[Kids(p)[i]]]
    ELSE <<Discover(st, p)>>

\* header values that are no resource's ETag
NoHeader == << >>
StarHeader == <<[kind |-> "star", tag |-> "", meta |-> 0, uid |-> 0, body |-> << >>]>>
StaleHeader == <<[kind |-> "stale", tag |-> "", meta |-> 0, uid |-> 0, body |-> << >>]>>

\* collection.has_uid(uid)
HasUid(st, cp, uid) ==
    \E k \in KidSet(cp) : st[k].kind = "item" /\ st[k].uid = uid

\* Collection.create_collection(href) without props: os.makedirs(exist_ok)
MakeDirs(st, p) ==
    IF st[p].kind = "col" THEN st ELSE [st EXCEPT ![p] = Col("", 0)]

\* href a whole-collection import stores the item of a UID under
HrefOfUid(uid) == IF uid = 1 THEN "a" ELSE "b"

\* Collection.create_collection(href, items, props): the collection at href
\* is replaced as a whole by one holding exactly the given items
CreateCollection(st, p, items, props) ==
    [q \in Paths |->
        IF q = p THEN Col(props.tag, props.meta)
        ELSE IF IsPrefix(p, q) /\ Len(q) = Len(p) + 1
             THEN IF \E i \in 1..Len(items) : HrefOfUid(items[i].uid) = BaseName(q)
                  THEN LET i == CHOOSE i \in 1..Len(items) :
                                    HrefOfUid(items[i].uid) = BaseName(q)
                       IN  Item(items[i].uid, items[i].body)
                  ELSE NoEntry
        ELSE IF IsPrefix(p, q) THEN NoEntry
        ELSE st[q]]

\* whether the model's tree can hold the collection with its items
Storable(p, items) ==
    /\ p \in Paths
    /\ Len(items) > 0 => (Len(p) > 0 /\ Len(p) < 3)
    /\ \A i, j \in 1..Len(items) :
           HrefOfUid(items[i].uid) = HrefOfUid(items[j].uid) => i = j

\* collection.delete(): the collection and everything below it
DeleteCollection(st, p) ==
    [q \in Paths |-> IF IsPrefix(p, q) THEN NoEntry ELSE st[q]]

\* collection.delete(href)
DeleteItem(st, p) == [st EXCEPT ![p] = NoEntry]

\* collection.upload(href, item)
Upload(st, p, item) == [st EXCEPT ![p] = Item(item.uid, item.body)]

\* Collection.move(item, to_collection, to_href): os.replace of the file
Move(st, from, to) == [st EXCEPT ![from] = NoEntry, ![to] = st[from]]

\* collection.set_meta_all(props) in xmlutils.proppatch
SetMeta(st, p, meta) == [st EXCEPT ![p].meta = meta]

(***************************************************************************)
(* The rights backend: Rights.authorized(user, path, letters) returns the  *)
(* granted subset of the letters.  The table is fixed for a run.           *)
(***************************************************************************)
Letters == {"r", "w", "R", "W"}

\* the configured rights backend: "none" grants everything to everybody,
\* "owner_only" grants a user its principal collection and the collections
\* in it, "from_file" is a rights file that grants a user everything on its
\* principal collection, the letters R and W only on the collections in it,
\* and r and w on what lies below them
RightsTypes == {"owner_only", "none", "from_file"}

FromFile(user, p) ==
    IF user = "" THEN {}
    ELSE IF Len(p) = 0 THEN {"R"}
    ELSE IF p[1] # user THEN {}
    ELSE IF Len(p) = 1 THEN Letters
    ELSE IF Len(p) = 2 THEN {"R", "W"}
    ELSE {"r", "w"}

Granted(user, p) ==
    IF rights = "none" THEN Letters
    ELSE IF rights = "from_file" THEN FromFile(user, p)
    ELSE IF user = "" THEN {}
    ELSE IF Len(p) = 0 THEN {"R"}
    ELSE IF p[1] # user THEN {}
    ELSE IF Len(p) = 1 THEN {"R", "W"}
    ELSE IF Len(p) = 2 THEN {"r", "w"}
    ELSE {}

Authorized(user, p, letters) == Granted(user, p) \cap letters

Upper(permission) == IF permission = "r" THEN "R" ELSE "W"

AccessBothLetters(own, parent, permission, item) ==
    LET permissions ==
            IF item.kind = "none" THEN {permission, Upper(permission)}
            ELSE IF item.kind = "col"
                 THEN IF item.tag # "" THEN {permission} ELSE {Upper(permission)}
            ELSE {}
        parent_permissions ==
            IF item.kind = "col" THEN {} ELSE {permission}
    IN  \/ permissions # {} /\ permissions \subseteq own
        \/ /\ parent_permissions # {}
           /\ parent \cap parent_permissions # {}

AccessItemOwnPath(own, parent, permission, item) ==
    LET permissions ==
            IF item.kind = "none" THEN {permission, Upper(permission)}
            ELSE IF item.kind = "col"
                 THEN IF item.tag # "" THEN {permission} ELSE {Upper(permission)}
            ELSE {permission}
        parent_permissions ==
            IF item.kind = "col" THEN {} ELSE {permission}
    IN  \/ permissions # {} /\ own \cap permissions # {}
        \/ /\ parent_permissions # {}
           /\ parent \cap parent_permissions # {}

AccessFallbackAlways(own, parent, permission, item) ==
    LET permissions ==
            IF item.kind = "none" THEN {permission, Upper(permission)}
            ELSE IF item.kind = "col"
                 THEN IF item.tag # "" THEN {permission} ELSE {Upper(permission)}
            ELSE {}
        parent_permissions == {permission}
    IN  \/ permissions # {} /\ own \cap permissions # {}
        \/ /\ parent_permissions # {}
           /\ parent \cap parent_permissions # {}

\* Application._access, given what the rights backend grants the user on
\* path (own) and on the parent directory of path (parent)
AccessGranted(own, parent, permission, item) ==
    LET permissions ==
            IF item.kind = "none" THEN {permission, Upper(permission)}
            ELSE IF item.kind = "col"
                 THEN IF item.tag # "" THEN {permission} ELSE {Upper(permission)}
            ELSE {}
        parent_permissions ==
            IF item.kind = "col" THEN {} ELSE {permission}
    IN  \/ permissions # {} /\ own \cap permissions # {}
        \/ /\ parent_permissions # {}
           /\ parent \cap parent_permissions # {}

\* Application._access
Access(user, path, permission, item) ==
    AccessGranted(Granted(user, path), Granted(user, ParentPath(path)),
                  permission, item)

(***************************************************************************)
(* Responses.                                                              *)
(***************************************************************************)
Code(status) ==
    CASE status \in {"NOT_ALLOWED", "FORBIDDEN", "DIRECTORY_LISTING"} -> 403
      [] status = "BAD_REQUEST" -> 400
      [] status = "NOT_FOUND" -> 404
      [] status \in {"CONFLICT", "resource-must-be-null", "no-uid-conflict"} -> 409
      [] status = "METHOD_NOT_ALLOWED" -> 405
      [] status = "PRECONDITION_FAILED" -> 412
      [] status = "REQUEST_TIMEOUT" -> 408
      [] status = "REQUEST_ENTITY_TOO_LARGE" -> 413
      [] status = "REMOTE_DESTINATION" -> 502
      [] status \in {"INTERNAL_SERVER_ERROR", "raised"} -> 500
      [] status = "UNAUTHORIZED" -> 401
      [] status = "OK" -> 200
      [] status = "CREATED" -> 201
      [] status = "NO_CONTENT" -> 204
      [] status = "MULTI_STATUS" -> 207
      [] status = "FOUND" -> 302
      [] OTHER -> 0

(***************************************************************************)
(* PUT bodies.  vobject.readComponents(content) yields a tuple of          *)
(* components; a VCALENDAR holds events (uid, payload), a VCARD holds its  *)
(* own, and any other top-level component is neither.                      *)
(***************************************************************************)
Ev(uid, pl) == [uid |-> uid, pl |-> pl]

Cal(events) == [name |-> "VCALENDAR", events |-> events]

Card(uid, pl) == [name |-> "VCARD", events |-> <<Ev(uid, pl)>>]

OtherComponent == [name |-> "VOTHER", events |-> << >>]

\* python truth value of a tag ("None" stands for None)
Truthy(tag) == tag \notin {"None", ""}

\* {value: key for key, value in xmlutils.MIMETYPES.items()}.get(content_type)
TagOfMime(ctype) ==
    IF ctype = "text/calendar" THEN "VCALENDAR"
    ELSE IF ctype = "text/vcard" THEN "VADDRESSBOOK"
    ELSE "None"

\* storage.predict_tag_of_whole_collection
PredictWhole(vitems, fallback) ==
    IF Len(vitems) > 0 /\ vitems[1].name = "VCALENDAR" THEN "VCALENDAR"
    ELSE IF Len(vitems) > 0 /\ vitems[1].name = "VCARD" THEN "VADDRESSBOOK"
    ELSE IF ~Truthy(fallback) /\ Len(vitems) = 0 THEN "VADDRESSBOOK"
    ELSE fallback

\* storage.predict_tag_of_parent_collection
PredictParent(vitems) ==
    IF Len(vitems) # 1 THEN ""
    ELSE IF vitems[1].name = "VCALENDAR" THEN "VCALENDAR"
    ELSE IF vitems[1].name = "VCARD" THEN "VADDRESSBOOK"
    ELSE ""

\* storage.check_and_sanitize_items returns without raising
CheckItems(vitems, is_collection, tag) ==
    /\ tag \in {"VCALENDAR", "VADDRESSBOOK"}
    /\ ~is_collection => Len(vitems) = 1
    /\ tag = "VCALENDAR" =>
          /\ Len(vitems) = 1
          /\ vitems[1].name = "VCALENDAR"
          /\ ~is_collection =>
                /\ Len(vitems[1].events) > 0
                /\ \A i, j \in 1..Len(vitems[1].events) :
                       vitems[1].events[i].uid = vitems[1].events[j].uid
    /\ tag = "VADDRESSBOOK" =>
          \A i \in 1..Len(vitems) : vitems[i].name = "VCARD"

RECURSIVE SortedSeq(_)
\* sorted(...) of a set of UIDs
SortedSeq(S) ==
    IF S = {} THEN << >>
    ELSE LET m == CHOOSE x \in S : \A y \in S : x <= y
         IN  <<m>> \o SortedSeq(S \ {m})

PayloadsOf(events) == [i \in 1..Len(events) |-> events[i].pl]

\* one item per component
GroupPerComponent(events) ==
    [k \in 1..Len(events) |-> [uid |-> events[k].uid, body |-> <<events[k].pl>>]]

\* itertools.groupby(sorted(components, key=get_uid), get_uid): one item
\* per UID, holding the components of that UID
GroupByUid(events) ==
    LET uids == SortedSeq({events[i].uid : i \in 1..Len(events)})
        OfUid(u) == SelectSeq(events, LAMBDA e : e.uid = u)
    IN  [k \in 1..Len(uids) |->
            [uid |-> uids[k], body |-> PayloadsOf(OfUid(uids[k]))]]

\* storage.Item(vobject_item=...) of one top-level component
ItemOf(component) ==
    [uid |-> component.events[1].uid, body |-> PayloadsOf(component.events)]

NoProps == [set |-> FALSE, tag |-> "", meta |-> 0]

\* do_PUT.prepare: (items, tag, write_whole_collection, props, exc_info),
\* or the ValueError it raises when the collection tag cannot be determined
prepare(vitems, tag0, wwc0, permissions, parent_permissions, ctype) ==
    LET branch ==
            IF wwc0 = "T" \/ (permissions /\ ~parent_permissions) THEN "whole"
            ELSE IF wwc0 = "F" \/ (~permissions /\ parent_permissions)
                 THEN "single"
            ELSE "neither"
        wwc == IF branch = "whole" THEN "T"
               ELSE IF branch = "single" THEN "F" ELSE wwc0
        tag == IF branch = "whole" THEN PredictWhole(vitems, TagOfMime(ctype))
               ELSE IF branch = "single"
                    THEN IF tag0 = "None" THEN PredictParent(vitems) ELSE tag0
               ELSE tag0
        ok == Truthy(tag) => CheckItems(vitems, wwc = "T", tag)
        items ==
            IF ~Truthy(tag) \/ ~ok THEN << >>
            ELSE IF wwc = "T" /\ tag = "VCALENDAR"
                 THEN GroupByUid(vitems[1].events)
            ELSE IF wwc = "T" /\ tag = "VADDRESSBOOK"
                 THEN [i \in 1..Len(vitems) |-> ItemOf(vitems[i])]
            ELSE IF wwc # "T" THEN <<ItemOf(vitems[1])>>
            ELSE << >>
    IN  [raised |-> branch = "whole" /\ ~Truthy(tag),
         items |-> items,
         tag |-> tag,
         wwc |-> wwc,
         props |-> IF wwc = "T" /\ ok
                   THEN [set |-> TRUE,
                         tag |-> IF Truthy(tag) THEN tag ELSE "",
                         meta |-> 0]
                   ELSE NoProps,
         exc |-> ~ok]

NoPrep == [raised |-> FALSE, items |-> << >>, tag |-> "None", wwc |-> "None",
           props |-> NoProps, exc |-> FALSE]

\* no pure function has been applied
NoCall == [fn |-> ""]

(***************************************************************************)
(* The module's WSGI entry point: the globals _application,                *)
(* _application_config_path and _application_lock, and the position of     *)
(* each thread inside application() and _init_application().               *)
(***************************************************************************)
\* the values of RADICALE_CONFIG ("None": not set)
ConfigPaths == {"None", "/a", "/b"}

NoThread == [pc |-> "idle", config_path |-> "None", out |-> ""]

\* the globals when the module has been imported (app: << >> is None, <<c>>
\* the Application built from the configuration loaded from c)
ModuleLoaded ==
    [app |-> << >>, built |-> 0, config_path |-> "None", holder |-> "",
     calls |-> 0, th |-> [r \in Reqs |-> NoThread]]

(***************************************************************************)
(* Requests.                                                               *)
(***************************************************************************)
\* what a handler reads of the request before it takes the lock
NoInp == [rd |-> "ok", big |-> FALSE, remote |-> FALSE, dest |-> << >>,
          base |-> << >>, body |-> << >>, ctype |-> "", ptag |-> "",
          pvalid |-> TRUE, meta |-> 0]

\* what a handler reads of the request and of the storage's verdict under the
\* lock: If-Match, If-None-Match: *, Overwrite, and whether the storage
\* rejects the mutation with a ValueError
NoHdr == [ifMatch |-> NoHeader, ifNoneMatch |-> FALSE, overwrite |-> "",
          depth |-> "0", fail |-> FALSE]

IdleReq == [pc |-> "idle", method |-> "", path |-> << >>, login |-> "",
            auth |-> FALSE, ext |-> FALSE, user |-> "", slept |-> FALSE,
            handled |-> FALSE, inp |-> NoInp,
            hdr |-> NoHdr, seen |-> EmptyStorage, prep |-> NoPrep,
            status |-> "", final |-> 0, exc |-> "", answer |-> "",
            calls |-> << >>, boot |-> << >>,
            acq |-> 0, rel |-> 0, stack |-> 0]

\* the result of a handler's locked section
Result(status, st, calls, prep) ==
    [status |-> status, st |-> st, calls |-> calls, prep |-> prep]

RejectAfterCall(status, st) == Result(status, st, <<"upload">>, NoPrep)

\* a return of a handler before any storage operation
Reject(status, st) == Result(status, st, << >>, NoPrep)

(***************************************************************************)
(* acquire_lock modes of the handlers.                                     *)
(***************************************************************************)
Mutating == {"PUT", "DELETE", "MOVE", "MKCOL", "MKCALENDAR", "PROPPATCH"}

Reading == {"GET", "HEAD", "PROPFIND", "REPORT"}

LockModeRead(method) == "r"

\* self.Collection.acquire_lock(mode, user) of each handler
LockMode(method) == IF method \in Mutating THEN "w" ELSE "r"

(***************************************************************************)
(* do_DELETE                                                               *)
(***************************************************************************)
DeleteIfMatchOkAlways(if_match, etag) == TRUE

\* not (if_match not in ("*", item.etag))
DeleteIfMatchOk(if_match, etag) == if_match \in {StarHeader, etag}

DoDelete(q, h, st) ==
    LET item == Discover(q.seen, q.path)
        \* environ.get("HTTP_IF_MATCH", "*")
        if_match == IF h.ifMatch = NoHeader THEN StarHeader ELSE h.ifMatch
    IN  IF item.kind = "none" THEN Reject("NOT_FOUND", st)
        ELSE IF ~Access(q.user, q.path, "w", item) THEN Reject("NOT_ALLOWED", st)
        ELSE IF ~DeleteIfMatchOk(if_match, Etag(q.seen, q.path))
             THEN Reject("PRECONDITION_FAILED", st)
        ELSE IF item.kind = "col"
             THEN Result("OK", DeleteCollection(st, q.path), <<"delete">>, NoPrep)
        ELSE Result("OK", DeleteItem(st, q.path), <<"delete">>, NoPrep)

(***************************************************************************)
(* do_GET, do_HEAD, do_PROPFIND, do_REPORT                                 *)
(***************************************************************************)
DoGetDeletes(q, h, st) == DoDelete(q, h, st)

\* the with block of do_GET; do_HEAD calls do_GET and drops the answer
DoGet(q, h, st) ==
    LET item == Discover(q.seen, q.path)
    IN  IF item.kind = "none" THEN Reject("NOT_FOUND", st)
        ELSE IF ~Access(q.user, q.path, "r", item) THEN Reject("NOT_ALLOWED", st)
        ELSE IF item.kind = "col" /\ item.tag = ""
             THEN Reject("DIRECTORY_LISTING", st)
        ELSE Reject("OK", st)

\* a discovered resource with what the rights backend grants the user on the
\* resource's own path (own) and on the path of the collection owning it
\* (coll)
Discovered(href, item, own, coll) ==
    [href |-> href, item |-> item, own |-> own, coll |-> coll]

PermissionReadFirst(e) ==
    LET permissions ==
            IF e.item.kind = "col"
            THEN IF e.item.tag # "" THEN e.own \cap {"r", "w"}
                 ELSE e.own \cap {"R", "W"}
            ELSE e.coll \cap {"r", "w"}
    IN  IF permissions \cap {"R", "r"} # {} THEN "r"
        ELSE IF permissions \cap {"W", "w"} # {} THEN "w"
        ELSE ""

\* the permission collect_allowed_items computes for one item
Permission(e) ==
    LET permissions ==
            IF e.item.kind = "col"
            THEN IF e.item.tag # "" THEN e.own \cap {"r", "w"}
                 ELSE e.own \cap {"R", "W"}
            ELSE e.coll \cap {"r", "w"}
    IN  IF permissions \cap {"W", "w"} # {} THEN "w"
        ELSE IF permissions \cap {"R", "r"} # {} THEN "r"
        ELSE ""

\* Application.collect_allowed_items: the (item, permission) pairs yielded
collect_allowed_items(items) ==
    LET paired == [i \in 1..Len(items) |->
                      [href |-> items[i].href,
                       permission |-> Permission(items[i])]]
        yielded(x) == x.permission # ""
    IN  SelectSeq(paired, yielded)

\* the locked section of do_PROPFIND on the discovered items (the first is
\* the root item, none if items is empty), given what the rights backend
\* grants on the parent directory of the request path; forbidden: the XML
\* builder answers FORBIDDEN
Propfind(items, parent, forbidden) ==
    IF items = << >> THEN [status |-> "NOT_FOUND", allowed |-> << >>]
    ELSE IF ~AccessGranted(items[1].own, parent, "r", items[1].item)
         THEN [status |-> "NOT_ALLOWED", allowed |-> << >>]
    ELSE IF forbidden
         THEN [status |-> "NOT_ALLOWED",
               allowed |-> collect_allowed_items(items)]
    ELSE [status |-> "MULTI_STATUS", allowed |-> collect_allowed_items(items)]

\* self.Collection.discover(path, depth): the resource at the path, then,
\* for a collection and depth "1", its children
DiscoverDepth(st, user, path, depth) ==
    LET found(p) == Discovered(p, Discover(st, p), Granted(user, p),
                               Granted(user, ParentPath(p)))
        kids == SelectSeq(Kids(path), LAMBDA p : Discover(st, p).kind # "none")
    IN  IF Discover(st, path).kind = "none" THEN << >>
        ELSE IF Discover(st, path).kind = "col" /\ depth = "1"
             THEN <<found(path)>> \o [i \in 1..Len(kids) |-> found(kids[i])]
        ELSE <<found(path)>>

DoPropfind(q, h, st) ==
    LET items == DiscoverDepth(q.seen, q.user, q.path, h.depth)
    IN  Reject(Propfind(items, Granted(q.user, ParentPath(q.path)),
                        h.fail).status, st)

DoReport(q, h, st) ==
    LET item == Discover(q.seen, q.path)
    IN  IF item.kind = "none" THEN Reject("NOT_FOUND", st)
        ELSE IF ~Access(q.user, q.path, "r", item) THEN Reject("NOT_ALLOWED", st)
        ELSE IF h.fail THEN Reject("BAD_REQUEST", st)
        ELSE Reject("MULTI_STATUS", st)

(***************************************************************************)
(* do_MKCALENDAR, do_MKCOL                                                 *)
(***************************************************************************)
MkParentRefusedNever(parent_item) == FALSE

\* not isinstance(parent_item, storage.BaseCollection) or
\* parent_item.get_meta("tag")
MkParentRefused(parent_item) ==
    parent_item.kind # "col" \/ parent_item.tag # ""

DoMk(q, h, st, exists_status, tag) ==
    LET item == Discover(q.seen, q.path)
        parent_item == Discover(q.seen, ParentPath(q.path))
    IN  IF item.kind # "none" THEN Reject(exists_status, st)
        ELSE IF parent_item.kind = "none" THEN Reject("CONFLICT", st)
        ELSE IF MkParentRefused(parent_item) THEN Reject("FORBIDDEN", st)
        ELSE IF h.fail \/ ~Storable(q.path, << >>)
             THEN Result("BAD_REQUEST", st, <<"create_collection">>, NoPrep)
        ELSE Result("CREATED",
                    CreateCollection(st, q.path, << >>,
                                     [set |-> TRUE, tag |-> tag,
                                      meta |-> q.inp.meta]),
                    <<"create_collection">>, NoPrep)

DoMkcalendar(q, h, st) == DoMk(q, h, st, "resource-must-be-null", "VCALENDAR")

DoMkcol(q, h, st) == DoMk(q, h, st, "METHOD_NOT_ALLOWED", q.inp.ptag)

(***************************************************************************)
(* do_PROPPATCH                                                            *)
(***************************************************************************)
DoProppatch(q, h, st) ==
    LET item == Discover(q.seen, q.path)
    IN  IF item.kind = "none" THEN Reject("NOT_FOUND", st)
        ELSE IF ~Access(q.user, q.path, "w", item) THEN Reject("NOT_ALLOWED", st)
        ELSE IF item.kind # "col" THEN Reject("FORBIDDEN", st)
        ELSE IF ~q.inp.pvalid \/ h.fail
             THEN Result("BAD_REQUEST", st, <<"proppatch">>, NoPrep)
        ELSE Result("MULTI_STATUS", SetMeta(st, q.path, q.inp.meta),
                    <<"proppatch">>, NoPrep)

(***************************************************************************)
(* do_MOVE                                                                 *)
(***************************************************************************)
MoveOutsideBaseNever(to_path, base_prefix) == FALSE

\* not (to_path + "/").startswith(base_prefix + "/")
MoveOutsideBase(to_path, base_prefix) == ~StartsWithBase(to_path, base_prefix)

MoveOverwriteDeniedNever(to_item, overwrite) == FALSE

\* to_item and environ.get("HTTP_OVERWRITE", "F") != "T"
MoveOverwriteDenied(to_item, overwrite) ==
    to_item.kind # "none" /\ overwrite # "T"

MoveUidConflictNever(seen, item, to_item, from_parent, to_parent) == FALSE

\* to_item and item.uid != to_item.uid or not to_item and
\* to_collection.path != item.collection.path and
\* to_collection.has_uid(item.uid)
MoveUidConflict(seen, item, to_item, from_parent, to_parent) ==
    \/ to_item.kind # "none" /\ item.uid # to_item.uid
    \/ /\ to_item.kind = "none"
       /\ to_parent # from_parent
       /\ HasUid(seen, to_parent, item.uid)

\* the part of do_MOVE before the lock
MovePreLock(user, path, inp) ==
    IF inp.remote THEN "REMOTE_DESTINATION"
    ELSE IF ~Access(user, path, "w", NoEntry) THEN "NOT_ALLOWED"
    ELSE IF MoveOutsideBase(inp.dest, inp.base) THEN "NOT_ALLOWED"
    ELSE IF ~Access(user, StripBase(inp.dest, inp.base), "w", NoEntry)
         THEN "NOT_ALLOWED"
    ELSE ""

DoMove(q, h, st) ==
    LET to_path == StripBase(q.inp.dest, q.inp.base)
        item == Discover(q.seen, q.path)
        to_item == Discover(q.seen, to_path)
        to_parent_path == ParentPath(to_path)
        to_collection == Discover(q.seen, to_parent_path)
        \* item.collection.get_meta("tag")
        tag == Discover(q.seen, ParentPath(q.path)).tag
    IN  IF item.kind = "none" THEN Reject("NOT_FOUND", st)
        ELSE IF \/ ~Access(q.user, q.path, "w", item)
                \/ ~Access(q.user, to_path, "w", item)
             THEN Reject("NOT_ALLOWED", st)
        ELSE IF item.kind = "col" THEN Reject("METHOD_NOT_ALLOWED", st)
        ELSE IF to_item.kind = "col" THEN Reject("FORBIDDEN", st)
        ELSE IF to_collection.kind = "none" THEN Reject("CONFLICT", st)
        ELSE IF tag = "" THEN Reject("FORBIDDEN", st)
        \* to_collection is an item: get_meta raises AttributeError
        ELSE IF to_collection.kind = "item" THEN Reject("raised", st)
        ELSE IF tag # to_collection.tag THEN Reject("FORBIDDEN", st)
        ELSE IF MoveOverwriteDenied(to_item, h.overwrite)
             THEN Reject("PRECONDITION_FAILED", st)
        ELSE IF MoveUidConflict(q.seen, item, to_item, ParentPath(q.path),
                                to_parent_path)
             THEN Reject("no-uid-conflict", st)
        ELSE IF h.fail \/ to_path \notin Paths
             THEN Result("BAD_REQUEST", st, <<"move">>, NoPrep)
        ELSE Result(IF to_item.kind # "none" THEN "NO_CONTENT" ELSE "CREATED",
                    Move(st, q.path, to_path), <<"move">>, NoPrep)

(***************************************************************************)
(* do_PUT                                                                  *)
(***************************************************************************)
PutIfMatchFailsNever(item, etag, current) == FALSE

\* not item and etag, or item and etag and item.etag != etag
PutIfMatchFails(item, etag, current) ==
    \/ item.kind = "none" /\ etag # NoHeader
    \/ item.kind # "none" /\ etag # NoHeader /\ current # etag

PutIfNoneMatchFailsNever(item, match) == FALSE

\* item and environ.get("HTTP_IF_NONE_MATCH", "") == "*"
PutIfNoneMatchFails(item, match) == item.kind # "none" /\ match

PutUidConflictNever(seen, item, parent_path, prepared_item) == FALSE

\* item and item.uid != prepared_item.uid or
\* not item and parent_item.has_uid(prepared_item.uid)
PutUidConflict(seen, item, parent_path, prepared_item) ==
    \/ item.kind # "none" /\ item.uid # prepared_item.uid
    \/ item.kind = "none" /\ HasUid(seen, parent_path, prepared_item.uid)

\* permissions, parent_permissions: the snapshot do_PUT takes before locking
PutPermissions(user, path) == Authorized(user, path, {"W", "w"}) # {}

PutParentPermissions(user, path) ==
    Authorized(user, ParentPath(path), {"w"}) # {}

\* prepare(vobject_items) before the lock
PutPrepared(user, path, inp) ==
    prepare(inp.body, "None", "None", PutPermissions(user, path),
            PutParentPermissions(user, path), inp.ctype)

\* the part of do_PUT before the lock
PutPreLock(user, path, inp) ==
    IF ~Access(user, path, "w", NoEntry) THEN "NOT_ALLOWED"
    ELSE IF inp.rd = "bad" THEN "BAD_REQUEST"
    ELSE IF inp.rd = "timeout" THEN "REQUEST_TIMEOUT"
    ELSE IF inp.rd = "unparsable" THEN "BAD_REQUEST"
    ELSE IF PutPrepared(user, path, inp).raised THEN "raised"
    ELSE ""

NeedsPrepareNever(tag, prepared_tag, wwc, prepared_wwc) == FALSE

\* tag != prepared_tag or
\* prepared_write_whole_collection != write_whole_collection
NeedsPrepare(tag, prepared_tag, wwc, prepared_wwc) ==
    tag # prepared_tag \/ prepared_wwc # wwc

DoPut(q, h, st) ==
    LET parent_path == ParentPath(q.path)
        item == Discover(q.seen, q.path)
        parent_item == Discover(q.seen, parent_path)
        prepared0 == PutPrepared(q.user, q.path, q.inp)
        write_whole_collection == item.kind = "col" \/ parent_item.tag = ""
        wwc == IF write_whole_collection THEN "T" ELSE "F"
        tag == IF write_whole_collection THEN prepared0.tag ELSE parent_item.tag
        prepared ==
            IF NeedsPrepare(tag, prepared0.tag, wwc, prepared0.wwc)
            THEN prepare(q.inp.body, tag, wwc, PutPermissions(q.user, q.path),
                         PutParentPermissions(q.user, q.path), q.inp.ctype)
            ELSE prepared0
    IN  IF parent_item.kind = "none" THEN Reject("CONFLICT", st)
        ELSE IF item.kind # "col" /\ parent_item.kind = "item"
             THEN Reject("raised", st)
        ELSE IF /\ write_whole_collection
                /\ Authorized(q.user, q.path,
                              {IF Truthy(tag) THEN "w" ELSE "W"}) = {}
             THEN Reject("NOT_ALLOWED", st)
        ELSE IF /\ ~write_whole_collection
                /\ Authorized(q.user, parent_path, {"w"}) = {}
             THEN Reject("NOT_ALLOWED", st)
        ELSE IF PutIfMatchFails(item, h.ifMatch, Etag(q.seen, q.path))
             THEN Reject("PRECONDITION_FAILED", st)
        ELSE IF PutIfNoneMatchFails(item, h.ifNoneMatch)
             THEN Reject("PRECONDITION_FAILED", st)
        ELSE IF prepared.raised THEN Result("raised", st, << >>, prepared)
        ELSE IF prepared.exc THEN Result("BAD_REQUEST", st, << >>, prepared)
        ELSE IF write_whole_collection
             THEN IF h.fail \/ ~Storable(q.path, prepared.items)
                  THEN Result("BAD_REQUEST", st, <<"create_collection">>,
                              prepared)
                  ELSE Result("CREATED",
                              CreateCollection(st, q.path, prepared.items,
                                               prepared.props),
                              <<"create_collection">>, prepared)
        ELSE IF Len(prepared.items) # 1 THEN Result("raised", st, << >>, prepared)
        ELSE IF PutUidConflict(q.seen, item, parent_path, prepared.items[1])
             THEN Result("no-uid-conflict", st, << >>, prepared)
        ELSE IF h.fail
             THEN Result("BAD_REQUEST", st, <<"upload">>, prepared)
        ELSE Result("CREATED", Upload(st, q.path, prepared.items[1]),
                    <<"upload">>, prepared)

(***************************************************************************)
(* The handlers before the lock, and under it.                             *)
(***************************************************************************)
\* self._read_xml_content(environ) fails
ReadStatus(inp) ==
    IF inp.rd = "bad" THEN "BAD_REQUEST"
    ELSE IF inp.rd = "timeout" THEN "REQUEST_TIMEOUT"
    ELSE ""

\* the part of do_MKCALENDAR before the lock: a ValueError of
\* check_and_sanitize_props is logged and the handler goes on
MkcalendarPreLock(user, path, inp) ==
    IF Authorized(user, path, {"w"}) = {} THEN "NOT_ALLOWED"
    ELSE ReadStatus(inp)

\* the part of do_MKCOL before the lock
MkcolPreLock(user, path, inp) ==
    LET permissions == Authorized(user, path, {"W", "w"})
    IN  IF permissions = {} THEN "NOT_ALLOWED"
        ELSE IF ReadStatus(inp) # "" THEN ReadStatus(inp)
        ELSE IF ~inp.pvalid THEN "BAD_REQUEST"
        ELSE IF \/ inp.ptag # "" /\ "w" \notin permissions
                \/ inp.ptag = "" /\ "W" \notin permissions
             THEN "NOT_ALLOWED"
        ELSE ""

\* the part of do_GET before the lock
GetPreLock(user, path, inp) ==
    IF path = Root THEN "FOUND"
    ELSE IF ~Access(user, path, "r", NoEntry) THEN "NOT_ALLOWED"
    ELSE ""

\* the status a handler returns before it takes the lock, "" when it goes on
PreLock(method, user, path, inp) ==
    CASE method = "DELETE" ->
            IF ~Access(user, path, "w", NoEntry) THEN "NOT_ALLOWED" ELSE ""
      [] method \in {"GET", "HEAD"} -> GetPreLock(user, path, inp)
      [] method = "MKCALENDAR" -> MkcalendarPreLock(user, path, inp)
      [] method = "MKCOL" -> MkcolPreLock(user, path, inp)
      [] method = "MOVE" -> MovePreLock(user, path, inp)
      [] method = "OPTIONS" -> "OK"
      [] method \in {"PROPFIND", "REPORT"} ->
            IF ~Access(user, path, "r", NoEntry) THEN "NOT_ALLOWED"
            ELSE ReadStatus(inp)
      [] method = "PROPPATCH" ->
            IF ~Access(user, path, "w", NoEntry) THEN "NOT_ALLOWED"
            ELSE ReadStatus(inp)
      [] method = "PUT" -> PutPreLock(user, path, inp)

\* the locked section of the handler
Locked(q, h, st) ==
    CASE q.method = "DELETE" -> DoDelete(q, h, st)
      [] q.method \in {"GET", "HEAD"} -> DoGet(q, h, st)
      [] q.method = "MKCALENDAR" -> DoMkcalendar(q, h, st)
      [] q.method = "MKCOL" -> DoMkcol(q, h, st)
      [] q.method = "MOVE" -> DoMove(q, h, st)
      [] q.method = "PROPFIND" -> DoPropfind(q, h, st)
      [] q.method = "REPORT" -> DoReport(q, h, st)
      [] q.method = "PROPPATCH" -> DoProppatch(q, h, st)
      [] q.method = "PUT" -> DoPut(q, h, st)

Handlers == Mutating \cup Reading \cup {"OPTIONS"}

(***************************************************************************)
(* The requests each specification draws.  "conc": two concurrent threads  *)
(* on one calendar; "seq": one thread, every handler, the whole tree.      *)
(***************************************************************************)
WellKnown == <<".well-known">>

WellKnownChild == <<".well-known", "caldav">>

IsWellKnownNever(path) == FALSE

\* path == "/.well-known" or path.startswith("/.well-known/")
IsWellKnown(path) == Len(path) > 0 /\ path[1] = ".well-known"

Methods(mode) ==
    IF mode = "conc"
    THEN {"PUT", "DELETE", "MOVE", "MKCOL", "MKCALENDAR", "PROPPATCH", "GET"}
    ELSE Handlers \cup {"FOO"}

\* the methods requested under the configured rights backend
RequestMethods(mode) ==
    IF rights = "from_file" THEN {"PUT"} ELSE Methods(mode)

RequestPaths(mode, method) ==
    IF mode = "conc" THEN {<<"u", "a">>, <<"u", "a", "a">>}
    ELSE IF method = "FOO" THEN {<<"u">>, WellKnown}
    ELSE IF method = "OPTIONS" THEN {<<"u">>, WellKnown}
    ELSE IF method = "GET"
         THEN {Root, <<"u">>, <<"u", "a">>, <<"u", "a", "a">>, WellKnown,
               WellKnownChild}
    ELSE IF method = "PUT"
         THEN {Root, <<"u">>, <<"u", "a">>, <<"u", "a", "a">>,
               <<"u", "a", "b">>, <<"u", "a", "a", "a">>, WellKnown}
    ELSE IF method \in {"MKCOL", "MKCALENDAR"}
         THEN {<<"u">>, <<"u", "a">>, <<"u", "a", "a">>, <<"u", "a", "b">>,
               <<"u", "a", "a", "a">>, WellKnown}
    ELSE {<<"u">>, <<"u", "a">>, <<"u", "a", "a">>, <<"u", "a", "b">>,
          WellKnown}

\* [login, ext, result]: the login name, whether it came from
\* Auth.get_external_login, and what Auth.login answers
AuthCases(mode) ==
    IF mode = "conc"
    THEN {[login |-> "u", ext |-> FALSE, result |-> "u"]}
    ELSE {[login |-> "", ext |-> FALSE, result |-> ""],
          [login |-> "u", ext |-> FALSE, result |-> "u"],
          [login |-> "u", ext |-> FALSE, result |-> ""],
          [login |-> "u", ext |-> TRUE, result |-> ""],
          [login |-> "u", ext |-> TRUE, result |-> "u"],
          [login |-> "x", ext |-> FALSE, result |-> "u/x"]}

OneEvent == {<<Cal(<<Ev(u, pl)>>)>> : u \in Uids, pl \in Payloads}

Bodies(mode) ==
    IF mode = "conc" THEN {<<Cal(<<Ev(1, 2)>>)>>}
    ELSE OneEvent \cup
         {<< >>,
          <<Cal(<<Ev(1, 1), Ev(1, 2)>>)>>,
          <<Cal(<<Ev(1, 1), Ev(2, 1)>>)>>,
          <<Card(1, 1)>>,
          <<OtherComponent>>}

Destinations(mode) ==
    IF mode = "conc" THEN {<<"u", "a", "b">>}
    ELSE {<<"u", "a", "a">>, <<"u", "a", "b">>, <<"u", "b", "a">>,
          <<"u", "b", "b">>, <<"u", "a">>, <<"p", "u", "a", "b">>}

BasePrefixes(mode) == IF mode = "conc" THEN {<< >>} ELSE {<< >>, <<"p">>}

Failures(mode) == IF mode = "conc" THEN {"ok"} ELSE {"ok", "bad", "timeout"}

Inputs(mode, method) ==
    LET reads == {[NoInp EXCEPT !.rd = rd] : rd \in Failures(mode)}
        big == IF mode = "conc" THEN {} ELSE {[NoInp EXCEPT !.big = TRUE]}
    IN  big \cup
        CASE method = "PUT" ->
                {[NoInp EXCEPT !.body = b] : b \in Bodies(mode)}
                \cup reads
                \cup (IF mode = "conc" THEN {}
                      ELSE {[NoInp EXCEPT !.rd = "unparsable"]})
          [] method = "MOVE" ->
                {[NoInp EXCEPT !.dest = d, !.base = b] :
                     d \in Destinations(mode), b \in BasePrefixes(mode)}
                \cup (IF mode = "conc" THEN {}
                      ELSE {[NoInp EXCEPT !.remote = TRUE,
                                          !.dest = <<"u", "a", "b">>,
                                          !.base = b] : b \in BasePrefixes(mode)})
          [] method = "MKCOL" ->
                {[NoInp EXCEPT !.ptag = t, !.pvalid = v] :
                     t \in {"", "VCALENDAR"},
                     v \in (IF mode = "conc" THEN {TRUE} ELSE BOOLEAN)}
                \cup reads
          [] method = "MKCALENDAR" ->
                {[NoInp EXCEPT !.pvalid = v] :
                     v \in (IF mode = "conc" THEN {TRUE} ELSE BOOLEAN)}
                \cup reads
          [] method = "PROPPATCH" ->
                {[NoInp EXCEPT !.meta = 1, !.pvalid = v] :
                     v \in (IF mode = "conc" THEN {TRUE} ELSE BOOLEAN)}
                \cup reads
          [] method \in {"PROPFIND", "REPORT"} -> reads
          [] OTHER -> {NoInp}

\* the If-Match values that matter: absent, "*", an ETag of nothing stored,
\* the resource's current ETag
IfMatchValues(path) ==
    {NoHeader, StarHeader, StaleHeader, Etag(storage, path)}

Headers(mode, q) ==
    LET fails == IF mode = "conc" THEN {FALSE} ELSE BOOLEAN
    IN  CASE q.method = "PUT" ->
                {[NoHdr EXCEPT !.ifMatch = m] : m \in IfMatchValues(q.path)}
                \cup {[NoHdr EXCEPT !.ifNoneMatch = n, !.fail = f] :
                          n \in BOOLEAN, f \in fails}
          [] q.method = "DELETE" ->
                {[NoHdr EXCEPT !.ifMatch = m] : m \in IfMatchValues(q.path)}
          [] q.method = "MOVE" ->
                {[NoHdr EXCEPT !.overwrite = o] : o \in {"", "T", "F"}}
                \cup {[NoHdr EXCEPT !.overwrite = o, !.fail = f] :
                          o \in {"", "T"}, f \in fails}
          [] q.method \in {"MKCOL", "MKCALENDAR", "PROPPATCH", "REPORT"} ->
                {[NoHdr EXCEPT !.fail = f] : f \in fails}
          [] q.method = "PROPFIND" ->
                {[NoHdr EXCEPT !.depth = d, !.fail = f] :
                     d \in {"0", "1"}, f \in fails}
          [] OTHER -> {NoHdr}

(***************************************************************************)
(* Initial states.                                                         *)
(***************************************************************************)
\* a principal with two calendars
CalendarStorage ==
    [p \in Paths |->
        CASE p \in {Root, <<"u">>} -> Col("", 0)
          [] p \in {<<"u", "a">>, <<"u", "b">>} -> Col("VCALENDAR", 0)
          [] p = <<"u", "a", "a">> -> Item(1, <<1>>)
          [] p = <<"u", "a", "b">> -> Item(2, <<1>>)
          [] p = <<"u", "b", "a">> -> Item(1, <<2>>)
          [] OTHER -> NoEntry]

\* a principal with one calendar of one event
SmallStorage ==
    [p \in Paths |->
        CASE p \in {Root, <<"u">>} -> Col("", 0)
          [] p = <<"u", "a">> -> Col("VCALENDAR", 0)
          [] p = <<"u", "a", "a">> -> Item(1, <<1>>)
          [] OTHER -> NoEntry]

InitStorages(mode) ==
    IF mode = "conc" THEN {EmptyStorage, SmallStorage}
    ELSE {EmptyStorage, CalendarStorage}

InitRights(mode) == IF mode = "conc" THEN {"owner_only"} ELSE RightsTypes

InitOf(mode) ==
    /\ storage \in InitStorages(mode)
    /\ rights \in InitRights(mode)
    /\ lock = [r \in Reqs |-> ""]
    /\ req = [r \in Reqs |-> IdleReq]
    /\ started = 0
    /\ answered = 0
    /\ applied = NoCall
    /\ wsgi = ModuleLoaded

(***************************************************************************)
(* The storage's reader/writer lock.                                       *)
(***************************************************************************)
\* Collection.acquire_lock(mode) can be entered
CanAcquire(r, mode) ==
    IF mode = "w" THEN \A s \in Reqs : lock[s] = ""
    ELSE \A s \in Reqs : lock[s] # "w"

(***************************************************************************)
(* Application.__call__: the except clause around _handle_request          *)
(***************************************************************************)
\* the text of INTERNAL_SERVER_ERROR
ServerErrorText == "A server error occurred.  Please contact the administrator."

LeakedAnswer(exc) == exc

\* status, headers, answer = INTERNAL_SERVER_ERROR: the answer does not
\* depend on the exception e, which is only logged
CaughtAnswer(exc) == ServerErrorText

\* except Exception as e: the request q ends with the fixed response
Caught(q, exc) ==
    [q EXCEPT !.pc = "done", !.status = "raised", !.exc = exc,
              !.final = Code("INTERNAL_SERVER_ERROR"),
              !.answer = CaughtAnswer(exc)]

(***************************************************************************)
(* Application._handle_request                                             *)
(***************************************************************************)
\* storage.is_safe_path_component(user)
IsSafePathComponent(user) == user \notin {"u/x"}

\* up to the principal bootstrap: the handler lookup, /.well-known, the login
Start(r, mode) ==
    /\ req[r].pc = "idle"
    /\ started < MaxStarted
    /\ started' = started + 1
    /\ \E m \in RequestMethods(mode), a \in AuthCases(mode) :
       \E p \in RequestPaths(mode, m) :
          LET user0 == IF a.login # "" THEN a.result ELSE ""
              user == IF IsSafePathComponent(user0) THEN user0 ELSE ""
              q == [IdleReq EXCEPT !.method = m, !.path = p]
          IN  req' = [req EXCEPT ![r] =
                IF m \notin Handlers
                THEN Caught(q, "AttributeError")
                ELSE IF IsWellKnown(p)
                THEN [q EXCEPT !.pc = "done", !.status = "NOT_FOUND",
                               !.final = 404]
                ELSE [q EXCEPT !.auth = TRUE, !.login = a.login, !.ext = a.ext,
                               !.user = user,
                               !.slept = (a.login # "" /\ user0 = ""),
                               !.pc = IF /\ user # ""
                                         /\ Authorized(user, <<user>>, {"W"}) # {}
                                      THEN "boot_r" ELSE "dispatch"]]
    /\ UNCHANGED <<storage, rights, lock, answered, applied, wsgi>>

\* with self.Collection.acquire_lock("r", user):
BootAcquireR(r) ==
    /\ req[r].pc = "boot_r"
    /\ CanAcquire(r, "r")
    /\ lock' = [lock EXCEPT ![r] = "r"]
    /\ req' = [req EXCEPT ![r].pc = "boot_disc", ![r].acq = @ + 1]
    /\ UNCHANGED <<storage, rights, started, answered, applied, wsgi>>

BootReadExitKeeps(held) == held

\* the end of the block "with self.Collection.acquire_lock("r", user):",
\* which comes before "if not principal:": the read lock is given back
BootReadExit(held) == ""

\* principal = next(self.Collection.discover(principal_path, depth="1"), None)
\* and the end of the with block
BootDiscover(r) ==
    /\ req[r].pc = "boot_disc"
    /\ lock' = [lock EXCEPT ![r] = BootReadExit(@)]
    /\ req' = [req EXCEPT ![r].seen = storage,
                          ![r].rel = @ + 1,
                          ![r].pc = IF Discover(storage, <<req[r].user>>).kind
                                       # "none"
                                    THEN "dispatch" ELSE "boot_w"]
    /\ UNCHANGED <<storage, rights, started, answered, applied, wsgi>>

\* if not principal: with self.Collection.acquire_lock("w", user):
BootAcquireW(r) ==
    /\ req[r].pc = "boot_w"
    /\ CanAcquire(r, "w")
    /\ lock' = [lock EXCEPT ![r] = "w"]
    /\ req' = [req EXCEPT ![r].pc = "boot_create", ![r].acq = @ + 1]
    /\ UNCHANGED <<storage, rights, started, answered, applied, wsgi>>

\* self.Collection.create_collection(principal_path), which may raise
\* ValueError (user = ""), and the end of the with block
BootCreate(r) ==
    /\ req[r].pc = "boot_create"
    /\ lock' = [lock EXCEPT ![r] = ""]
    /\ \E fail \in BOOLEAN :
          LET principal_path == <<req[r].user>>
              call == [op |-> "create_collection",
                       existed |-> Discover(storage, principal_path).kind
                                   # "none",
                       failed |-> fail]
          IN  /\ storage' = IF fail THEN storage
                            ELSE MakeDirs(storage, principal_path)
              /\ req' = [req EXCEPT
                            ![r].boot = Append(@, call),
                            ![r].rel = @ + 1,
                            ![r].user = IF fail THEN "" ELSE @,
                            ![r].pc = "dispatch"]
    /\ UNCHANGED <<rights, started, answered, applied, wsgi>>

HandlerRunsAlways(login, user) == TRUE

\* if not login or user: the method handler is called
HandlerRuns(login, user) == login = "" \/ user # ""

\* the content length check, then the handler up to its lock, or NOT_ALLOWED
\* for a login without a user
Dispatch(r, mode) ==
    /\ req[r].pc = "dispatch"
    /\ \E i \in Inputs(mode, req[r].method) :
          LET q == req[r]
              status == IF ~HandlerRuns(q.login, q.user) THEN "NOT_ALLOWED"
                        ELSE PreLock(q.method, q.user, q.path, i)
          IN  req' = [req EXCEPT ![r] =
                IF i.big
                THEN [q EXCEPT !.inp = i, !.pc = "done",
                               !.status = "REQUEST_ENTITY_TOO_LARGE",
                               !.final = 413]
                ELSE LET h == [q EXCEPT !.inp = i,
                                        !.handled = HandlerRuns(q.login, q.user)]
                     IN  IF status = "raised"
                         THEN Caught(h, "ValueError")
                         ELSE IF status # ""
                         THEN [h EXCEPT !.pc = "resp", !.status = status]
                         ELSE [h EXCEPT !.pc = "lock"]]
    /\ UNCHANGED <<storage, rights, lock, started, answered, applied, wsgi>>

\* with self.Collection.acquire_lock(mode, user):
Acquire(r) ==
    /\ req[r].pc = "lock"
    /\ CanAcquire(r, LockMode(req[r].method))
    /\ lock' = [lock EXCEPT ![r] = LockMode(req[r].method)]
    /\ req' = [req EXCEPT ![r].pc = "disc", ![r].acq = @ + 1, ![r].stack = 1]
    /\ UNCHANGED <<storage, rights, started, answered, applied, wsgi>>

\* the handler's self.Collection.discover calls
DiscoverStep(r) ==
    /\ req[r].pc = "disc"
    /\ req' = [req EXCEPT ![r].seen = storage, ![r].pc = "act"]
    /\ UNCHANGED <<storage, rights, lock, started, answered, applied, wsgi>>

CloseStackKeeps(stack) == stack

\* lock_stack.close(): the contexts entered on the ExitStack are exited and
\* the stack is left empty
CloseStack(stack) == 0

\* xmlutils.report may call the unlock_storage_fn it is handed (once it has
\* read what it needs), or return or raise without calling it
EarlyRelease(q) == IF q.method = "REPORT" THEN BOOLEAN ELSE {FALSE}

\* the handler's checks on what it discovered, then its storage operation,
\* up to the return statement (the lock is still held)
Act(r, mode) ==
    /\ req[r].pc = "act"
    /\ \E h \in Headers(mode, req[r]), early \in EarlyRelease(req[r]) :
          LET res == Locked(req[r], h, storage)
              stack == IF early THEN CloseStack(req[r].stack) ELSE req[r].stack
          IN  /\ storage' = res.st
              /\ lock' = IF early THEN [lock EXCEPT ![r] = ""] ELSE lock
              /\ req' = [req EXCEPT ![r].hdr = h,
                                    ![r].status = res.status,
                                    ![r].calls = res.calls,
                                    ![r].prep = res.prep,
                                    ![r].stack = stack,
                                    ![r].rel = IF early THEN @ + 1 ELSE @,
                                    ![r].pc = "ret"]
    /\ UNCHANGED <<rights, started, answered, applied, wsgi>>

\* the end of the with block, on return or on an exception: the contexts
\* still on the stack are exited
Release(r) ==
    /\ req[r].pc = "ret"
    /\ lock' = [lock EXCEPT ![r] = ""]
    /\ LET q == [req[r] EXCEPT !.pc = "resp", !.inp = NoInp, !.hdr = NoHdr,
                                !.seen = EmptyStorage, !.prep = NoPrep,
                                !.rel = @ + req[r].stack, !.stack = 0]
       IN  req' = [req EXCEPT ![r] =
                      IF req[r].status = "raised"
                      THEN Caught(q, IF req[r].prep.raised THEN "ValueError"
                                     ELSE "AttributeError")
                      ELSE q]
    /\ UNCHANGED <<storage, rights, started, answered, applied, wsgi>>

EscalatesEveryRefusal(status, user, ext) ==
    Code(status) = 403 /\ user = "" /\ ~ext

\* (status, headers, answer) == NOT_ALLOWED and not user and
\* not external_login
Escalates(status, user, ext) ==
    status = "NOT_ALLOWED" /\ user = "" /\ ~ext

\* the NOT_ALLOWED of an unknown user becomes 401; response(...)
Respond(r) ==
    /\ req[r].pc = "resp"
    /\ req' = [req EXCEPT
                  ![r].pc = "done",
                  ![r].inp = NoInp,
                  ![r].final = IF Escalates(req[r].status, req[r].user,
                                            req[r].ext)
                               THEN 401 ELSE Code(req[r].status)]
    /\ UNCHANGED <<storage, rights, lock, started, answered, applied, wsgi>>

\* start_response(status, headers) and return answers: the thread is free
\* for the next request
Finish(r) ==
    /\ req[r].pc = "done"
    /\ req' = [req EXCEPT ![r] = IdleReq]
    /\ UNCHANGED <<storage, rights, lock, started, applied, wsgi>>
    /\ answered' = answered + 1

(***************************************************************************)
(* Specifications.  Spec: the threads of Reqs serve concurrent requests.   *)
(* SeqSpec: one thread serves requests one after the other.                *)
(***************************************************************************)
Init == InitOf("conc")

Next ==
    \E r \in Reqs :
        \/ Start(r, "conc")
        \/ BootAcquireR(r)
        \/ BootDiscover(r)
        \/ BootAcquireW(r)
        \/ BootCreate(r)
        \/ Dispatch(r, "conc")
        \/ Acquire(r)
        \/ DiscoverStep(r)
        \/ Act(r, "conc")
        \/ Release(r)
        \/ Respond(r)
        \/ Finish(r)

Spec == Init /\ [][Next]_vars

SeqInit == InitOf("seq")

SeqNext ==
    \/ Start("t1", "seq")
    \/ BootAcquireR("t1")
    \/ BootDiscover("t1")
    \/ BootAcquireW("t1")
    \/ BootCreate("t1")
    \/ Dispatch("t1", "seq")
    \/ Acquire("t1")
    \/ DiscoverStep("t1")
    \/ Act("t1", "seq")
    \/ Release("t1")
    \/ Respond("t1")
    \/ Finish("t1")

SeqSpec == SeqInit /\ [][SeqNext]_vars

(***************************************************************************)
(* Properties.                                                             *)
(***************************************************************************)
\* the request is inside the with block of its handler
InLockedSection(r) == req[r].pc \in {"disc", "act", "ret"}

\* the resource the handler discovered at the request path
SeenItem(r) == Discover(req[r].seen, req[r].path)

\* the handler's return statement has been evaluated, the lock not released
Returning(r, method) == req[r].pc = "ret" /\ req[r].method = method

\* C1: the storage-mutation step of a PUT, DELETE, MOVE, MKCOL, MKCALENDAR or
\* PROPPATCH handler runs only while its request holds the write lock: two
\* requests are never inside a mutating handler's locked section together,
\* and no other request holds any lock meanwhile.
C1_MutationUnderWriteLock ==
    \A r \in Reqs :
        (InLockedSection(r) /\ req[r].method \in Mutating) =>
            /\ lock[r] = "w"
            /\ \A s \in Reqs \ {r} : lock[s] = "" /\ ~InLockedSection(s)

\* a request has mutated the storage while another waits for the lock
C1_Witness ==
    \E r \in Reqs : \E s \in Reqs \ {r} :
        /\ req[r].pc = "ret" /\ req[r].method \in Mutating
        /\ req[r].calls # << >>
        /\ req[s].pc = "lock" /\ req[s].method \in Mutating

\* C2: in a mutating handler discovery, the checks and the mutation happen
\* under one lock: when the handler applies its checks and its mutation,
\* what it discovered (existence, type, ETag) is still what is stored.
C2_DiscoveredStillCurrent ==
    \A r \in Reqs :
        (req[r].pc \in {"act", "ret"} /\ req[r].method \in Mutating
            /\ req[r].calls = << >>) =>
            /\ req[r].seen = storage
            /\ Etag(req[r].seen, req[r].path) = Etag(storage, req[r].path)

\* a DELETE has discovered its target while another writer on the same path
\* waits for the lock
C2_Witness ==
    \E r \in Reqs : \E s \in Reqs \ {r} :
        /\ req[r].pc = "act" /\ req[r].method = "DELETE"
        /\ SeenItem(r).kind # "none"
        /\ req[s].pc = "lock" /\ req[s].method \in Mutating
        /\ req[s].path = req[r].path

\* C3: create_collection for the principal path is invoked only when no
\* principal collection exists at that path at the moment of the call.
C3_PrincipalCreatedOnlyWhenAbsent ==
    \A r \in Reqs :
        \A i \in 1..Len(req[r].boot) : ~req[r].boot[i].existed

\* the stored resource has the same content as when it was discovered
Untouched(r) == req[r].calls = << >> /\ storage = req[r].seen

C5_PutIfNoneMatchStar ==
    \A r \in Reqs :
        (/\ Returning(r, "PUT")
         /\ SeenItem(r).kind # "none"
         /\ req[r].hdr.ifNoneMatch) =>
            /\ Untouched(r)
            /\ req[r].status \in {"PRECONDITION_FAILED", "NOT_ALLOWED"}

\* an authorized PUT with If-None-Match: * on an existing event was refused
C5_Witness ==
    \E r \in Reqs :
        /\ Returning(r, "PUT")
        /\ SeenItem(r).kind = "item"
        /\ req[r].hdr.ifNoneMatch
        /\ req[r].inp.body \in OneEvent
        /\ req[r].status = "PRECONDITION_FAILED"

MoveOutsidePrefix(r) ==
    /\ req[r].method = "MOVE"
    /\ req[r].inp.dest # << >>
    /\ ~req[r].inp.big
    /\ ~req[r].inp.remote
    /\ ~IsPrefix(req[r].inp.base, req[r].inp.dest)

\* C8: a MOVE whose Destination (on the request's host) has a path outside
\* the configured base prefix returns Not-Allowed and never takes the lock,
\* discovers the destination or calls move.
C8_MoveOutsideBasePrefix ==
    \A r \in Reqs :
        MoveOutsidePrefix(r) =>
            /\ req[r].pc = "resp"
            /\ req[r].status = "NOT_ALLOWED"
            /\ Code(req[r].status) = 403
            /\ req[r].calls = << >>
            /\ lock[r] = ""

\* a MOVE of a user with write access to the source was refused for its
\* Destination outside the base prefix
C8_Witness ==
    \E r \in Reqs :
        /\ MoveOutsidePrefix(r)
        /\ req[r].user = "u"
        /\ Access(req[r].user, req[r].path, "w", NoEntry)
        /\ req[r].status = "NOT_ALLOWED"

\* the destination of the MOVE of r
MoveToPath(r) == StripBase(req[r].inp.dest, req[r].inp.base)

\* the resource the MOVE of r discovered at its destination
MoveToItem(r) == Discover(req[r].seen, MoveToPath(r))

\* the MOVE of r was refused for access or for the collections' tags
MoveRefused(r) == req[r].status \in {"NOT_ALLOWED", "FORBIDDEN"}

UidsDistinct(st) ==
    \A cp \in Paths :
        \A i \in 1..Len(Kids(cp)) : \A j \in (i + 1)..Len(Kids(cp)) :
            (st[Kids(cp)[i]].kind = "item" /\ st[Kids(cp)[j]].kind = "item")
                => st[Kids(cp)[i]].uid # st[Kids(cp)[j]].uid

\* an item of collection cp of the discovered storage, under another href
\* than those of except, has the UID
UidUnderAnotherHref(r, cp, uid, except) ==
    /\ cp \in Paths
    /\ \E k \in KidSet(cp) \ except :
           req[r].seen[k].kind = "item" /\ req[r].seen[k].uid = uid

\* the single-item PUT of r reached its UID check with an item that would
\* replace one of another UID or repeat a UID of the parent collection
PutWouldConflict(r) ==
    /\ Returning(r, "PUT")
    /\ req[r].prep.wwc = "F"
    /\ ~req[r].prep.raised /\ ~req[r].prep.exc
    /\ Len(req[r].prep.items) = 1
    /\ \/ SeenItem(r).kind = "item"
          /\ SeenItem(r).uid # req[r].prep.items[1].uid
       \/ SeenItem(r).kind = "none"
          /\ UidUnderAnotherHref(r, ParentPath(req[r].path),
                                 req[r].prep.items[1].uid, {req[r].path})

\* the MOVE of r, not refused before its UID check, would replace an item
\* of another UID or repeat a UID of the destination collection
MoveWouldConflict(r) ==
    /\ Returning(r, "MOVE")
    /\ SeenItem(r).kind = "item"
    /\ ~MoveRefused(r)
    /\ \/ MoveToItem(r).kind = "item"
          /\ req[r].hdr.overwrite = "T"
          /\ MoveToItem(r).uid # SeenItem(r).uid
       \/ MoveToItem(r).kind = "none"
          /\ UidUnderAnotherHref(r, ParentPath(MoveToPath(r)),
                                 SeenItem(r).uid,
                                 {req[r].path, MoveToPath(r)})

\* C10: starting from a storage whose collections hold items of distinct
\* UIDs, no collection ever holds two items with the same UID; a single-item
\* PUT or a MOVE that would replace an item by one of another UID, or add an
\* item whose UID exists under another href of the target collection, is
\* answered "no-uid-conflict" and performs no mutation.
C10_UidUniqueness ==
    /\ UidsDistinct(storage)
    /\ \A r \in Reqs :
           (PutWouldConflict(r) \/ MoveWouldConflict(r)) =>
               /\ req[r].status = "no-uid-conflict"
               /\ Code(req[r].status) = 409
               /\ Untouched(r)

\* a PUT of an event into a calendar that holds the event's UID under another
\* href was answered no-uid-conflict
C10_Witness ==
    \E r \in Reqs :
        /\ PutWouldConflict(r)
        /\ SeenItem(r).kind = "none"
        /\ req[r].status = "no-uid-conflict"
        /\ UidsDistinct(storage)

\* the request of r is a MKCOL or MKCALENDAR at its return statement
ReturningMk(r) == req[r].pc = "ret" /\ req[r].method \in {"MKCOL", "MKCALENDAR"}

\* the resource the handler of r discovered at the parent of the request path
SeenParent(r) == Discover(req[r].seen, ParentPath(req[r].path))

\* C11: under the write lock MKCOL and MKCALENDAR reject an existing target
\* (Method-Not-Allowed for MKCOL, resource-must-be-null for MKCALENDAR), then
\* a missing parent (Conflict), then a parent that is an item or a tagged
\* collection (Forbidden, 403); create_collection is called only if all three
\* pass, and every rejection leaves the storage unchanged.
C11_MkPreconditions ==
    \A r \in Reqs :
        ReturningMk(r) =>
            LET q == req[r]
                exists == SeenItem(r).kind # "none"
                orphan == ~exists /\ SeenParent(r).kind = "none"
                closed == /\ ~exists
                          /\ \/ SeenParent(r).kind = "item"
                             \/ SeenParent(r).kind = "col"
                                /\ SeenParent(r).tag # ""
            IN  /\ exists =>
                       /\ q.status = IF q.method = "MKCOL"
                                     THEN "METHOD_NOT_ALLOWED"
                                     ELSE "resource-must-be-null"
                       /\ Untouched(r)
                /\ orphan => q.status = "CONFLICT" /\ Untouched(r)
                /\ closed =>
                       /\ q.status = "FORBIDDEN" /\ Code(q.status) = 403
                       /\ Untouched(r)
                /\ q.calls # << >> =>
                       /\ ~exists /\ ~orphan /\ ~closed
                       /\ q.calls = <<"create_collection">>

\* a MKCALENDAR inside a tagged collection was answered Forbidden
C11_Witness ==
    \E r \in Reqs :
        /\ req[r].pc = "ret" /\ req[r].method = "MKCALENDAR"
        /\ SeenItem(r).kind = "none"
        /\ SeenParent(r).kind = "col" /\ SeenParent(r).tag = "VCALENDAR"
        /\ req[r].status = "FORBIDDEN"

\* the PUT of r prepared a whole-collection VCALENDAR import without error
PreparedCalendarImport(r) ==
    /\ Returning(r, "PUT")
    /\ req[r].prep.wwc = "T" /\ req[r].prep.tag = "VCALENDAR"
    /\ ~req[r].prep.raised /\ ~req[r].prep.exc
    /\ Len(req[r].inp.body) = 1

\* C12: for a whole-collection VCALENDAR import the prepared items are the
\* groups of the body's components by UID: as many items as distinct UIDs,
\* items of pairwise different UIDs, every component's UID is an item's, and
\* each item holds exactly the components of its UID; these are the items
\* create_collection stores.
C12_ImportGroupsByUid ==
    \A r \in Reqs :
        PreparedCalendarImport(r) =>
            LET events == req[r].inp.body[1].events
                items == req[r].prep.items
                OfUid(u) == SelectSeq(events, LAMBDA e : e.uid = u)
            IN  /\ Len(items) =
                       Cardinality({events[i].uid : i \in 1..Len(events)})
                /\ \A k, l \in 1..Len(items) :
                       items[k].uid = items[l].uid => k = l
                /\ \A i \in 1..Len(events) :
                       \E k \in 1..Len(items) : items[k].uid = events[i].uid
                /\ \A k \in 1..Len(items) :
                       items[k].body = PayloadsOf(OfUid(items[k].uid))
                /\ req[r].status = "CREATED" =>
                       \A k \in 1..Len(items) :
                           \E p \in KidSet(req[r].path) :
                               storage[p] = Item(items[k].uid, items[k].body)

\* a calendar of two events with one UID was imported as one item holding
\* both
C12_Witness ==
    \E r \in Reqs :
        /\ PreparedCalendarImport(r)
        /\ req[r].inp.body = <<Cal(<<Ev(1, 1), Ev(1, 2)>>)>>
        /\ req[r].status = "CREATED"
        /\ req[r].calls = <<"create_collection">>
        /\ Len(req[r].prep.items) = 1
        /\ \E p \in KidSet(req[r].path) : storage[p] = Item(1, <<1, 2>>)

\* the PUT of r stored its body
PutSucceeded(r) ==
    /\ Returning(r, "PUT")
    /\ req[r].calls # << >>
    /\ req[r].status \notin {"BAD_REQUEST", "raised"}

\* C13: a successful PUT has status Created if and only if no resource
\* existed at the target path before it; a PUT that replaces an existing item
\* or collection succeeds with another status.
C13_CreatedIffNew ==
    \A r \in Reqs :
        PutSucceeded(r) =>
            (req[r].status = "CREATED" <=> SeenItem(r).kind = "none")

\* the response of the request of r has been built
Answered(r) == req[r].pc = "done"

\* C14: a response is the 401 challenge exactly when the outcome is
\* Not-Allowed, there is no resolved user and no external login; a request
\* with a resolved user never receives 401, and Forbidden and
\* Directory-Listing outcomes stay 403.
C14_ChallengeExactly ==
    \A r \in Reqs :
        Answered(r) =>
            /\ req[r].final = 401 <=>
                   /\ req[r].status = "NOT_ALLOWED"
                   /\ req[r].user = ""
                   /\ ~req[r].ext
            /\ req[r].user # "" => req[r].final # 401
            /\ req[r].status \in {"FORBIDDEN", "DIRECTORY_LISTING"} =>
                   req[r].final = 403
            /\ req[r].final # 401 => req[r].final = Code(req[r].status)

\* an anonymous request was refused and answered with the challenge
C14_Witness ==
    \E r \in Reqs :
        /\ Answered(r)
        /\ req[r].login = "" /\ req[r].user = ""
        /\ req[r].status = "NOT_ALLOWED"
        /\ req[r].final = 401

\* a request for /.well-known or a path under it is being served by r
ServingWellKnown(r) ==
    /\ req[r].pc # "idle"
    /\ Len(req[r].path) > 0 /\ req[r].path[1] = ".well-known"

\* nothing behind the short-circuit has run for the request of r: the
\* authentication backend was not consulted, no delay was slept, no principal
\* collection was created, no lock was taken and no handler was invoked
GateUntouched(r) ==
    /\ req[r].pc = "done"
    /\ ~req[r].auth /\ req[r].login = "" /\ req[r].user = ""
    /\ ~req[r].slept
    /\ req[r].boot = << >>
    /\ lock[r] = ""
    /\ ~req[r].handled
    /\ req[r].inp = NoInp /\ req[r].calls = << >>

\* C15 (as stated): every request for /.well-known or a path under it is
\* answered Not-Found, for every method and every credential input, with
\* nothing behind the short-circuit having run.
C15_WellKnownNotFoundAnyMethod ==
    \A r \in Reqs :
        ServingWellKnown(r) =>
            /\ req[r].status = "NOT_FOUND" /\ req[r].final = 404
            /\ GateUntouched(r)

\* C15 (amended): every request for /.well-known or a path under it whose
\* method has a handler is answered Not-Found, for every credential input;
\* a method without a handler fails at the handler lookup, which precedes
\* the path check, and is answered Internal-Server-Error; in both cases
\* nothing behind the short-circuit has run.
C15_WellKnownShortCircuit ==
    \A r \in Reqs :
        ServingWellKnown(r) =>
            /\ GateUntouched(r)
            /\ req[r].method \in Handlers =>
                   req[r].status = "NOT_FOUND" /\ req[r].final = 404
            /\ req[r].method \notin Handlers => req[r].final = 500

\* a second request, a GET under /.well-known/, was answered Not-Found
C15_Witness ==
    \E r \in Reqs :
        /\ ServingWellKnown(r)
        /\ req[r].method = "GET" /\ req[r].path = WellKnownChild
        /\ req[r].final = 404
        /\ started = 2

\* the principal collection of the user logged in by the request of r could
\* not be created, and the request has passed the dispatch
DowngradedAfterLogin(r) ==
    /\ req[r].pc \in {"lock", "disc", "act", "ret", "resp", "done"}
    /\ req[r].boot # << >>
    /\ req[r].boot[Len(req[r].boot)].failed
    /\ req[r].status # "REQUEST_ENTITY_TOO_LARGE"

\* C16: when creating the principal collection fails with a validation error
\* after a successful login, the session is downgraded to anonymous and the
\* request is processed by the method handler as an anonymous request; it is
\* not answered Internal-Server-Error.
C16_DowngradedRequestIsHandled ==
    \A r \in Reqs :
        DowngradedAfterLogin(r) =>
            /\ req[r].user = ""
            /\ req[r].handled
            /\ req[r].final # 500

\* the MKCALENDAR of r, past its part before the lock, carried properties
\* that check_and_sanitize_props rejects
MkcalendarInvalidProps(r) ==
    /\ req[r].method = "MKCALENDAR"
    /\ req[r].pc \in {"lock", "disc", "act", "ret", "resp"}
    /\ ~req[r].inp.pvalid

\* C17: a MKCALENDAR whose properties check_and_sanitize_props rejects
\* returns Bad-Request before locking (unless access was refused first) and
\* never invokes create_collection.
C17_MkcalendarInvalidProps ==
    \A r \in Reqs :
        MkcalendarInvalidProps(r) =>
            /\ req[r].pc = "resp"
            /\ req[r].status \in {"BAD_REQUEST", "NOT_ALLOWED"}
            /\ req[r].calls = << >>

\* the handler of the PUT of r has ended, before the lock or at its return
\* statement under it, where the parent it discovered is a collection
PutEnded(r) ==
    /\ req[r].method = "PUT"
    /\ req[r].handled
    /\ \/ req[r].pc \in {"resp", "done"} /\ req[r].inp.body # << >>
       \/ req[r].pc = "ret" /\ SeenParent(r).kind = "col"

\* C18: a validation failure of a PUT body never escapes the handler as an
\* exception (Internal-Server-Error): an unparsable body, a failure inside
\* prepare, a single-item body without exactly one component and a
\* whole-collection import whose tag cannot be determined all end in
\* Bad-Request, in the prepare pass before the lock and in the one under it.
C18_PutValidationIsBadRequest ==
    \A r \in Reqs :
        PutEnded(r) =>
            /\ req[r].status # "raised"
            /\ (req[r].prep.raised \/ req[r].prep.exc) =>
                   req[r].status = "BAD_REQUEST"


\* the requests being served: started and not yet answered
InFlight == {r \in Reqs : req[r].pc # "idle"}

\* C19: an exception raised while a request is handled (the lookup of a
\* handler for a method that has none included) ends the request at the top
\* level with the fixed Internal-Server-Error response, whose body is the
\* constant text and not the exception; and start_response has been called
\* exactly once for every request that was answered, whether it succeeded
\* or raised (never for a request still being served).
C19_TopLevelCatch ==
    /\ answered + Cardinality(InFlight) = started
    /\ \A r \in Reqs :
          /\ (req[r].pc # "idle" /\ req[r].method \notin Handlers) =>
                 req[r].pc = "done" /\ req[r].exc # ""
          /\ (req[r].status = "raised" /\ req[r].pc # "ret") =>
                 req[r].pc = "done" /\ req[r].exc # ""
          /\ req[r].exc # "" =>
                 /\ req[r].pc = "done"
                 /\ req[r].final = 500
                 /\ req[r].answer = ServerErrorText
                 /\ req[r].answer # req[r].exc

\* after a first request was answered, a request with a method that has no
\* handler ended with the fixed Internal-Server-Error response
C19_Witness ==
    \E r \in Reqs :
        /\ answered = 1
        /\ req[r].pc = "done"
        /\ req[r].method \notin Handlers
        /\ req[r].exc = "AttributeError"
        /\ req[r].final = 500


\* the rejections a handler decides itself
HandlerRejections ==
    {"NOT_ALLOWED", "NOT_FOUND", "CONFLICT", "FORBIDDEN", "METHOD_NOT_ALLOWED",
     "PRECONDITION_FAILED", "no-uid-conflict", "resource-must-be-null"}

\* request r was rejected by its handler: one of the rejections above, or
\* Bad-Request for the exception stored by prepare
RejectedByHandler(r) ==
    \/ req[r].status \in HandlerRejections
    \/ req[r].status = "BAD_REQUEST" /\ req[r].prep.exc

\* C20: within one invocation of a mutating handler at most one storage
\* mutation operation is invoked; it is the last storage interaction, so the
\* handler's answer after it is only the operation's success or the
\* Bad-Request for its ValueError; every rejection the handler decides
\* itself is returned with no mutation operation invoked, and a handler that
\* invoked none leaves the storage as it found it.
C20_OneMutationOrNone ==
    \A r \in Reqs :
        req[r].method \in Mutating =>
            /\ Len(req[r].calls) <= 1
            /\ (req[r].pc \in {"ret", "resp", "done"} /\ RejectedByHandler(r)) =>
                   req[r].calls = << >>
            /\ (req[r].pc = "ret" /\ req[r].calls = << >>) =>
                   storage = req[r].seen
            /\ req[r].calls # << >> =>
                   req[r].status \in {"OK", "CREATED", "NO_CONTENT",
                                      "MULTI_STATUS", "BAD_REQUEST"}

\* a PUT whose body was refused by prepare is about to return Bad-Request
\* from its locked section, with no mutation operation invoked
C20_Witness ==
    \E r \in Reqs :
        /\ req[r].pc = "ret"
        /\ req[r].method = "PUT"
        /\ req[r].status = "BAD_REQUEST"
        /\ req[r].prep.exc
        /\ req[r].calls = << >>
        /\ storage = req[r].seen

(***************************************************************************)
(* FnSpec: the pure functions of the application, each applied to every    *)
(* input of a bounded set; applied holds the last application.             *)
(***************************************************************************)
\* the resources _access is called with: none resolved, an untagged and a
\* tagged collection, an item
Resources == {NoEntry, Col("", 0), Col("VCALENDAR", 0), Item(1, <<1>>)}

\* self._access(user, path, permission, item) under a rights table that
\* grants the user own on path and parent on the parent directory of path
AccessCall ==
    /\ applied = NoCall
    /\ \E own \in SUBSET Letters, parent \in SUBSET Letters :
       \E permission \in {"r", "w"}, item \in Resources :
          applied' = [fn |-> "_access", own |-> own, parent |-> parent,
                      permission |-> permission, item |-> item,
                      result |-> AccessGranted(own, parent, permission, item)]
    /\ UNCHANGED <<storage, rights, lock, req, started, answered, wsgi>>

\* the locked section of do_PROPFIND when discover yields root (nothing if
\* root is no resource) and then one more resource, child, under a rights
\* table that grants own on the request path, parent on its parent
\* directory, and ch on the path collect_allowed_items asks about for child
PropfindCall ==
    /\ applied = NoCall
    /\ \E own \in SUBSET Letters, parent \in SUBSET Letters :
       \E ch \in SUBSET Letters, root \in Resources :
       \E child \in Resources \ {NoEntry}, forbidden \in BOOLEAN :
          LET items == IF root.kind = "none" THEN << >>
                       ELSE <<Discovered("root", root, own, parent),
                              Discovered("child", child, ch, ch)>>
              res == Propfind(items, parent, forbidden)
          IN  applied' = [fn |-> "do_PROPFIND", items |-> items,
                          parent |-> parent, status |-> res.status,
                          allowed |-> res.allowed]
    /\ UNCHANGED <<storage, rights, lock, req, started, answered, wsgi>>

\* Times are counted in units of 2^-RandomBits seconds.
Unit == 2 ^ RandomBits

\* the multiple of q nearest to n, a tie going to the even multiple
RoundTo(n, q) ==
    LET lo == (n \div q) * q
    IN  IF 2 * (n - lo) < q THEN lo
        ELSE IF 2 * (n - lo) > q THEN lo + q
        ELSE IF (lo \div q) % 2 = 0 THEN lo ELSE lo + q

\* a float result: values in [1, 2) seconds are multiples of 2 units, in
\* [2, 4) of 4 units, in [4, 8) of 8 units; below 1 every unit is a float
Float(n) ==
    IF n < Unit THEN n
    ELSE IF n < 2 * Unit THEN RoundTo(n, 2)
    ELSE IF n < 4 * Unit THEN RoundTo(n, 4)
    ELSE RoundTo(n, 8)

RandomDelayNoOffset(delay, random) == Float(delay * random)

\* delay * (0.5 + random.random()), for a delay of whole seconds
RandomDelay(delay, random) ==
    Float(delay * Float(Unit \div 2 + random))

\* the configured values of auth/delay, in seconds
Delays == 0..3

\* the delay slept after a failed login (none if delay is not positive)
DelayCall ==
    /\ applied = NoCall
    /\ \E delay \in Delays, random \in 0..(Unit - 1) :
          applied' = [fn |-> "random_delay", delay |-> delay,
                      random |-> random,
                      slept |-> delay > 0,
                      result |-> IF delay > 0 THEN RandomDelay(delay, random)
                                 ELSE 0]
    /\ UNCHANGED <<storage, rights, lock, req, started, answered, wsgi>>

FnInit == InitOf("conc")

FnNext == AccessCall \/ PropfindCall \/ DelayCall

FnSpec == FnInit /\ [][FnNext]_vars

(***************************************************************************)
(* Properties of _access (FnSpec).                                         *)
(***************************************************************************)
\* _access was applied to a resource of the given kinds
AccessApplied(kinds) == applied.fn = "_access" /\ applied.item.kind \in kinds

\* the letters of the direct check on the path, by the kind of the resource
DirectLetters ==
    IF applied.item.kind = "none"
    THEN {applied.permission, Upper(applied.permission)}
    ELSE IF applied.item.kind = "item" THEN {}
    ELSE IF applied.item.tag # "" THEN {applied.permission}
    ELSE {Upper(applied.permission)}

\* C21 as stated: with no resolved resource (and a parent directory that
\* does not grant the mode letter, so that only the direct check decides)
\* access is granted only if the rights backend grants both the lowercase
\* and the uppercase letter of the mode on the path.
C21_DirectCheckNeedsBoth ==
    (/\ AccessApplied({"none"})
     /\ applied.permission \notin applied.parent
     /\ applied.result) =>
        {applied.permission, Upper(applied.permission)} \subseteq applied.own

\* C21 amended: with no resolved resource the direct check on the path
\* succeeds exactly if the rights backend grants at least one of the
\* lowercase and the uppercase letter of the mode (the granted subset of
\* the two requested letters is not empty); access is then granted, and
\* otherwise it is granted exactly if the parent directory grants the
\* lowercase letter.
C21_DirectCheckNeedsEither ==
    AccessApplied({"none"}) =>
        /\ (applied.own \cap {applied.permission, Upper(applied.permission)}
                # {}) => applied.result
        /\ (applied.own \cap {applied.permission, Upper(applied.permission)}
                = {}) =>
               (applied.result <=> applied.permission \in applied.parent)

\* write access was asked on an unresolved path on which only the uppercase
\* letter is granted and whose parent grants nothing: it was granted
C21_Witness ==
    /\ AccessApplied({"none"})
    /\ applied.permission = "w"
    /\ applied.own = {"W"}
    /\ applied.parent = {}
    /\ applied.result

\* C22: with a resolved resource, access to a tagged collection is the
\* lowercase mode letter on its own path, to an untagged collection the
\* uppercase letter on its own path, to an item the lowercase letter on the
\* parent collection's path whatever is granted on the item's own path.
C22_ResolvedAccessRule ==
    /\ (AccessApplied({"col"}) /\ applied.item.tag # "") =>
           (applied.result <=> applied.permission \in applied.own)
    /\ (AccessApplied({"col"}) /\ applied.item.tag = "") =>
           (applied.result <=> Upper(applied.permission) \in applied.own)
    /\ AccessApplied({"item"}) =>
           (applied.result <=> applied.permission \in applied.parent)

\* access to an item was refused although every letter is granted on the
\* item's own path: its parent collection grants nothing
C22_Witness ==
    /\ AccessApplied({"item"})
    /\ applied.own = Letters
    /\ applied.parent = {}
    /\ ~applied.result

\* C23 as stated: for every kind of target, when the direct check fails and
\* the parent directory grants the lowercase mode letter, access is granted.
C23_FallbackForEveryTarget ==
    (/\ AccessApplied({"none", "col", "item"})
     /\ applied.own \cap DirectLetters = {}
     /\ applied.permission \in applied.parent) =>
        applied.result

\* C23 amended: when the direct check fails, an unresolved path and a
\* resolved item are retried against the parent directory with the
\* lowercase mode letter and granted if the parent grants it; a resolved
\* collection, tagged or not, is not retried and is refused.
C23_FallbackUnlessCollection ==
    (AccessApplied({"none", "col", "item"})
     /\ applied.own \cap DirectLetters = {}) =>
        /\ applied.item.kind \in {"none", "item"} =>
               (applied.result <=> applied.permission \in applied.parent)
        /\ applied.item.kind = "col" => ~applied.result

\* access to a tagged collection was refused although its parent directory
\* grants every letter: its own path does not grant the mode letter
C23_Witness ==
    /\ AccessApplied({"col"})
    /\ applied.item.tag # ""
    /\ applied.own = {}
    /\ applied.parent = Letters
    /\ ~applied.result


\* request r is between two with blocks, or past its handler
OutsideLockScope(r) ==
    req[r].pc \in {"idle", "boot_w", "dispatch", "lock", "resp", "done"}

\* C24: a lock acquired by a request is released on every exit path: once
\* the handler has returned or raised (and between the with blocks) the
\* request holds no lock and has released as often as it acquired.  When
\* REPORT's lock was released early through the callback handed to the
\* report layer, the end of the scope releases nothing more (every
\* acquisition is released exactly once), and the handler's answer was
\* already computed: what follows discovers nothing in the storage.
C24_LockReleasedOnEveryExit ==
    \A r \in Reqs :
        /\ req[r].rel <= req[r].acq
        /\ (lock[r] # "") <=> (req[r].acq = req[r].rel + 1)
        /\ OutsideLockScope(r) => (lock[r] = "" /\ req[r].rel = req[r].acq)
        /\ (InLockedSection(r) /\ lock[r] = "") =>
               /\ req[r].method = "REPORT"
               /\ req[r].pc = "ret"
               /\ req[r].stack = 0
               /\ req[r].status # ""
        /\ (InLockedSection(r) /\ lock[r] # "") => req[r].stack = 1

\* the report layer released the lock of a REPORT early: the handler is
\* still in its with block, holds no lock, and has released its acquisition
C24_Witness ==
    \E r \in Reqs :
        /\ req[r].method = "REPORT"
        /\ req[r].pc = "ret"
        /\ req[r].status = "MULTI_STATUS"
        /\ lock[r] = ""
        /\ req[r].acq > 0
        /\ req[r].rel = req[r].acq


(***************************************************************************)
(* Properties of do_PROPFIND and collect_allowed_items (FnSpec).           *)
(***************************************************************************)
\* the letters that give access to a discovered resource: r or w on a
\* tagged collection's own path, R or W on an untagged collection's own
\* path, r or w on the path of the collection owning an item
AccessLetters(e) ==
    IF e.item.kind = "item" THEN e.coll \cap {"r", "w"}
    ELSE IF e.item.tag # "" THEN e.own \cap {"r", "w"}
    ELSE e.own \cap {"R", "W"}

\* the root resource passes the read access check of do_PROPFIND
RootReadable(e, parent) ==
    IF e.item.kind = "item" THEN "r" \in parent
    ELSE IF e.item.tag # "" THEN "r" \in e.own
    ELSE "R" \in e.own

\* the hrefs handed to the XML builder
PassedHrefs == {applied.allowed[i].href : i \in 1..Len(applied.allowed)}

\* C25: PROPFIND hands to the XML builder exactly the discovered resources
\* on which the user has some access (r or w on a tagged collection's own
\* path, R or W on an untagged collection's own path, r or w on the owning
\* collection's path for an item), each once and paired with "w" if a write
\* letter is granted and otherwise with "r"; a resource with no granted
\* letter is not passed; and when the root resource fails the read access
\* check the request is answered Not-Allowed and nothing is passed.
C25_PropfindPassesOnlyAllowed ==
    (applied.fn = "do_PROPFIND" /\ applied.items # << >>) =>
        /\ ~RootReadable(applied.items[1], applied.parent) =>
               (applied.status = "NOT_ALLOWED" /\ applied.allowed = << >>)
        /\ RootReadable(applied.items[1], applied.parent) =>
               /\ applied.status \in {"MULTI_STATUS", "NOT_ALLOWED"}
               /\ \A i \in 1..Len(applied.items) :
                     (AccessLetters(applied.items[i]) # {}) <=>
                         (applied.items[i].href \in PassedHrefs)
        /\ Len(applied.allowed) = Cardinality(PassedHrefs)
        /\ \A i \in 1..Len(applied.allowed) :
              \E j \in 1..Len(applied.items) :
                 /\ applied.items[j].href = applied.allowed[i].href
                 /\ AccessLetters(applied.items[j]) # {}
                 /\ applied.allowed[i].permission =
                        IF AccessLetters(applied.items[j]) \cap {"w", "W"} # {}
                        THEN "w" ELSE "r"

\* a PROPFIND on a readable tagged collection passed the collection paired
\* with "r" and left out the item under it, on whose collection path
\* nothing is granted
C25_Witness ==
    /\ applied.fn = "do_PROPFIND"
    /\ applied.status = "MULTI_STATUS"
    /\ Len(applied.items) = 2
    /\ applied.items[1].item.kind = "col"
    /\ applied.items[1].own = {"r"}
    /\ applied.items[2].item.kind = "item"
    /\ AccessLetters(applied.items[2]) = {}
    /\ applied.allowed = <<[href |-> "root", permission |-> "r"]>>


(***************************************************************************)
(* AppSpec: the threads of Reqs call the module's entry point              *)
(* application(environ, start_response) concurrently.                      *)
(***************************************************************************)
\* the thread record of r is replaced by t
Thread(r, t) == [wsgi EXCEPT !.th[r] = t]

\* config_path = environ.get("RADICALE_CONFIG", os.environ.get(...))
AppCall(r) ==
    /\ wsgi.th[r].pc = "idle"
    /\ wsgi.calls < MaxCalls
    /\ \E c \in ConfigPaths :
          wsgi' = [Thread(r, [pc |-> "check", config_path |-> c, out |-> ""])
                      EXCEPT !.calls = @ + 1]
    /\ UNCHANGED <<storage, rights, lock, req, started, answered, applied>>

\* if _application is None: _init_application(...)
AppCheck(r) ==
    /\ wsgi.th[r].pc = "check"
    /\ wsgi' = Thread(r, [wsgi.th[r] EXCEPT
                              !.pc = IF wsgi.app = << >> THEN "init"
                                     ELSE "compare"])
    /\ UNCHANGED <<storage, rights, lock, req, started, answered, applied>>

\* with _application_lock:
InitAcquire(r) ==
    /\ wsgi.th[r].pc = "init"
    /\ wsgi.holder = ""
    /\ wsgi' = [Thread(r, [wsgi.th[r] EXCEPT !.pc = "locked"])
                   EXCEPT !.holder = r]
    /\ UNCHANGED <<storage, rights, lock, req, started, answered, applied>>

InitReturnsEarlyNever(app) == FALSE

\* if _application is not None: return
InitReturnsEarly(app) == app # << >>

\* the re-check under the lock, then _application_config_path = config_path
InitLocked(r) ==
    /\ wsgi.th[r].pc = "locked"
    /\ wsgi' = IF InitReturnsEarly(wsgi.app)
               THEN [Thread(r, [wsgi.th[r] EXCEPT !.pc = "compare"])
                        EXCEPT !.holder = ""]
               ELSE [Thread(r, [wsgi.th[r] EXCEPT !.pc = "load"])
                        EXCEPT !.config_path = wsgi.th[r].config_path]
    /\ UNCHANGED <<storage, rights, lock, req, started, answered, applied>>

\* config.load(...) and _application = Application(configuration), either of
\* which may raise; the end of the with block
InitLoad(r) ==
    /\ wsgi.th[r].pc = "load"
    /\ \E ok \in BOOLEAN :
          wsgi' = IF ok
                  THEN [Thread(r, [wsgi.th[r] EXCEPT !.pc = "compare"])
                           EXCEPT !.app = <<wsgi.th[r].config_path>>,
                                  !.built = @ + 1,
                                  !.holder = ""]
                  ELSE [Thread(r, [wsgi.th[r] EXCEPT !.pc = "idle",
                                                     !.out = "raised"])
                           EXCEPT !.holder = ""]
    /\ UNCHANGED <<storage, rights, lock, req, started, answered, applied>>

\* if _application_config_path != config_path: raise ValueError(...)
AppCompare(r) ==
    /\ wsgi.th[r].pc = "compare"
    /\ wsgi' = Thread(r, IF wsgi.config_path # wsgi.th[r].config_path
                         THEN [wsgi.th[r] EXCEPT !.pc = "idle",
                                                 !.out = "ValueError"]
                         ELSE [wsgi.th[r] EXCEPT !.pc = "serve"])
    /\ UNCHANGED <<storage, rights, lock, req, started, answered, applied>>

\* return _application(environ, start_response)
AppServe(r) ==
    /\ wsgi.th[r].pc = "serve"
    /\ wsgi' = Thread(r, [wsgi.th[r] EXCEPT !.pc = "idle", !.out = "served"])
    /\ UNCHANGED <<storage, rights, lock, req, started, answered, applied>>

AppInit == InitOf("conc")

AppNext ==
    \E r \in Reqs :
        \/ AppCall(r)
        \/ AppCheck(r)
        \/ InitAcquire(r)
        \/ InitLocked(r)
        \/ InitLoad(r)
        \/ AppCompare(r)
        \/ AppServe(r)

AppSpec == AppInit /\ [][AppNext]_vars

\* C26: the application instance is constructed at most once under every
\* interleaving of concurrent first requests; a request is handed to the
\* instance only if its configuration path is the one the instance was
\* initialized with, and a request that reaches the comparison with another
\* path ends with the configuration error.
C26_SingleInstance ==
    /\ wsgi.built <= 1
    /\ (wsgi.app = << >>) <=> (wsgi.built = 0)
    /\ wsgi.app # << >> => wsgi.config_path = wsgi.app[1]
    /\ \A r \in Reqs :
          /\ wsgi.th[r].pc \in {"compare", "serve"} => wsgi.app # << >>
          /\ (wsgi.th[r].pc = "serve" \/ wsgi.th[r].out = "served") =>
                 (wsgi.app # << >> /\ wsgi.th[r].config_path = wsgi.app[1])
          /\ wsgi.th[r].out = "ValueError" =>
                 (wsgi.app # << >> /\ wsgi.th[r].config_path # wsgi.app[1])

\* two calls were made: the instance was built once, one thread was served
\* by it and the other, with another configuration path, ended with the
\* configuration error
C26_Witness ==
    \E r \in Reqs : \E s \in Reqs \ {r} :
        /\ wsgi.calls = 2
        /\ wsgi.built = 1
        /\ wsgi.th[r].out = "served"
        /\ wsgi.th[s].out = "ValueError"


(***************************************************************************)
(* Properties of the delay after a failed login (FnSpec).                  *)
(***************************************************************************)
\* C27 as stated: the delay slept for a configured delay of d > 0 seconds is
\* at least d seconds and less than 1.5 d seconds.
C27_DelayAtLeastConfigured ==
    (applied.fn = "random_delay" /\ applied.slept) =>
        /\ applied.result >= applied.delay * Unit
        /\ 2 * applied.result < 3 * applied.delay * Unit

\* C27 amended: the delay slept for a configured delay of d > 0 seconds is
\* at least 0.5 d seconds and at most 1.5 d seconds (for d = 1: at least
\* half a second, at most one second and a half).
C27_DelayAroundConfigured ==
    (applied.fn = "random_delay" /\ applied.slept) =>
        /\ 2 * applied.result >= applied.delay * Unit
        /\ 2 * applied.result <= 3 * applied.delay * Unit

\* with a configured delay of 1 second and random.random() = 0.0 the delay
\* slept was half a second
C27_Witness ==
    /\ applied.fn = "random_delay"
    /\ applied.slept
    /\ applied.delay = 1
    /\ applied.random = 0
    /\ 2 * applied.result = Unit


\* request r supplied a login name and has no user: the verification
\* failed, the identity was refused as unsafe for a path component, or the
\* creation of the principal collection failed
LoginWithoutUser(r) ==
    /\ req[r].auth
    /\ req[r].login # ""
    /\ req[r].user = ""
    /\ req[r].pc \notin {"idle", "boot_r", "boot_disc", "boot_w", "boot_create"}

\* no handler was invoked for r and nothing was discovered or changed in the
\* storage on behalf of its method
NoHandlerRan(r) ==
    /\ ~req[r].handled
    /\ req[r].pc \in {"dispatch", "resp", "done"}
    /\ req[r].calls = << >>
    /\ req[r].prep = NoPrep

\* C28 as stated: when a login name is supplied but no user results, no
\* handler is invoked, nothing is discovered or changed in the storage for
\* the method, and the outcome is Not-Allowed, answered 401 unless an
\* external login was supplied; a handler runs only for a request with no
\* login name or with a user.
C28_LoginWithoutUserNotAllowed ==
    \A r \in Reqs :
        /\ req[r].handled => (req[r].login = "" \/ req[r].user # "")
        /\ LoginWithoutUser(r) =>
               /\ NoHandlerRan(r)
               /\ req[r].pc = "resp" => req[r].status = "NOT_ALLOWED"
               /\ req[r].pc = "done" =>
                      /\ req[r].status = "NOT_ALLOWED"
                      /\ req[r].final = IF req[r].ext THEN 403 ELSE 401

\* C28 amended: when a login name is supplied but no user results, no
\* handler is invoked and nothing is discovered or changed in the storage
\* for the method; the outcome is Request-Entity-Too-Large (413) if the
\* announced content length exceeds the configured maximum, and otherwise
\* Not-Allowed, answered 401 unless an external login was supplied; a
\* handler runs only for a request with no login name or with a user.
C28_LoginWithoutUserNoHandler ==
    \A r \in Reqs :
        /\ req[r].handled => (req[r].login = "" \/ req[r].user # "")
        /\ LoginWithoutUser(r) =>
               /\ NoHandlerRan(r)
               /\ req[r].pc = "resp" => req[r].status = "NOT_ALLOWED"
               /\ (req[r].pc = "done" /\ req[r].inp.big) => req[r].final = 413
               /\ (req[r].pc = "done" /\ ~req[r].inp.big) =>
                      /\ req[r].status = "NOT_ALLOWED"
                      /\ req[r].final = IF req[r].ext THEN 403 ELSE 401

\* a PUT with a login whose verification failed was answered 401, no
\* handler having run
C28_Witness ==
    \E r \in Reqs :
        /\ LoginWithoutUser(r)
        /\ req[r].method = "PUT"
        /\ req[r].slept
        /\ req[r].pc = "done"
        /\ req[r].final = 401
        /\ ~req[r].handled


\* the PUT of r has replaced or created, by create_collection, a collection
\* with a tag
PutCreatedTaggedCollection(r) ==
    /\ Returning(r, "PUT")
    /\ req[r].status = "CREATED"
    /\ req[r].calls = <<"create_collection">>
    /\ req[r].prep.props.tag # ""
    /\ Discover(storage, req[r].path).kind = "col"
    /\ Discover(storage, req[r].path).tag # ""

\* C29: whenever a PUT creates or replaces a tagged collection at a path by
\* a whole-collection import, the rights backend grants the user the letter
\* w on that path, whatever the rights on the path and on its parent and
\* whether the collection was prepared before the lock or under it.
C29_TaggedImportNeedsLowerW ==
    \A r \in Reqs :
        PutCreatedTaggedCollection(r) =>
            "w" \in Granted(req[r].user, req[r].path)


\* the PUT of r has invoked its storage mutation
PutMutationStep(r) == Returning(r, "PUT") /\ req[r].calls # << >>

\* the decision of do_PUT under the lock: the target is an existing
\* collection or the parent collection is untagged
WholeCollectionDecision(r) ==
    SeenItem(r).kind = "col" \/ SeenParent(r).tag = ""

\* C30: when PUT reaches its mutation step, the prepared state it uses was
\* prepared for the decision made under the lock: the prepared
\* whole-collection flag equals "the target is an existing collection or the
\* parent is untagged" as discovered under the lock, create_collection is
\* the mutation exactly in that case, and for a single-item upload the
\* prepared tag is the parent collection's tag; for every permission
\* snapshot taken before the lock, the rights backend answering the same
\* before and under the lock.
C30_PreparedForLockedDecision ==
    \A r \in Reqs :
        PutMutationStep(r) =>
            /\ req[r].prep.wwc = IF WholeCollectionDecision(r) THEN "T" ELSE "F"
            /\ (req[r].calls = <<"create_collection">>) <=>
                   WholeCollectionDecision(r)
            /\ req[r].calls = <<"upload">> =>
                   /\ req[r].prep.tag = SeenParent(r).tag
                   /\ Len(req[r].prep.items) = 1

\* a PUT whose first prepare pass made no decision (the path and its parent
\* both grant write access) uploaded one item into a calendar with the
\* state it prepared again under the lock
C30_Witness ==
    \E r \in Reqs :
        /\ PutMutationStep(r)
        /\ PutPermissions(req[r].user, req[r].path)
        /\ PutParentPermissions(req[r].user, req[r].path)
        /\ req[r].calls = <<"upload">>
        /\ req[r].prep.wwc = "F"
        /\ req[r].prep.tag = "VCALENDAR"

(***************************************************************************)
(* The shape of the collection tree.                                       *)
(***************************************************************************)
\* every collection below the root lies directly in an untagged collection
TreeShape(st) ==
    \A p \in Paths \ {Root} :
        st[p].kind = "col" =>
            /\ st[ParentPath(p)].kind = "col"
            /\ st[ParentPath(p)].tag = ""

AboutToAcquire(r) == req[r].pc \in {"boot_r", "boot_w", "lock"}

\* the mode r asks for there
WantedMode(r) ==
    CASE req[r].pc = "boot_r" -> "r"
      [] req[r].pc = "boot_w" -> "w"
      [] OTHER -> LockMode(req[r].method)

\* r waits for the lock
Waiting(r) == AboutToAcquire(r) /\ ~CanAcquire(r, WantedMode(r))

\* the acquisitions of the principal bootstrap of r, once it is over
BootAcquisitions(r) ==
    IF req[r].boot # << >> THEN 2
    ELSE IF /\ req[r].user # ""
            /\ Authorized(req[r].user, <<req[r].user>>, {"W"}) # {}
         THEN 1
    ELSE 0

\* s holds the lock and its next step can be taken: it is the rest of a with
\* block (BootDiscover, BootCreate, DiscoverStep, Act or Release), which asks
\* for no lock
HolderCanProceed(s) ==
    /\ lock[s] # ""
    /\ req[s].pc \in {"boot_disc", "boot_create", "disc", "act", "ret"}
    /\ req[s].pc = "act" =>
           (Headers("conc", req[s]) # {} /\ EarlyRelease(req[s]) # {})

\* C32: a request never asks for the storage lock while it holds one: the
\* bootstrap has given back its read lock before it asks for the write lock,
\* and that one before the handler runs; a handler acquires once; a request
\* holds at most one lock at any time; and whenever a request waits for the
\* lock, a holder of the lock can take a step that waits for nothing, so that
\* concurrent requests do not deadlock on the lock.
C32_NoNestedAcquisition ==
    \A r \in Reqs :
        /\ AboutToAcquire(r) => (lock[r] = "" /\ req[r].acq = req[r].rel)
        /\ req[r].acq - req[r].rel \in {0, 1}
        /\ req[r].pc = "boot_w" => (req[r].acq = 1 /\ req[r].rel = 1)
        /\ req[r].pc \in {"dispatch", "lock"} =>
               req[r].acq = BootAcquisitions(r)
        /\ req[r].pc \in {"disc", "act", "ret"} =>
               req[r].acq = BootAcquisitions(r) + 1
        /\ req[r].pc \in {"resp", "done"} =>
               req[r].acq - BootAcquisitions(r) \in {0, 1}
        /\ Waiting(r) => \E s \in Reqs \ {r} : HolderCanProceed(s)

\* a request between the two with blocks of the bootstrap, holding nothing,
\* waits for the write lock while the handler of another request holds the
\* lock
C32_Witness ==
    \E r, s \in Reqs :
        /\ r # s
        /\ req[r].pc = "boot_w"
        /\ lock[r] = ""
        /\ req[r].acq = 1 /\ req[r].rel = 1
        /\ Waiting(r)
        /\ req[s].pc = "act"
        /\ lock[s] = "w"

(***************************************************************************)
(* The handlers that only read.                                            *)
(***************************************************************************)
ReadOnlyMethods == Reading \cup {"OPTIONS"}

\* request r came without a login name: no principal bootstrap
Anonymous(r) == req[r].login = ""

\* C33: the handlers of GET, HEAD, PROPFIND, REPORT and OPTIONS hold at most
\* the read lock (OPTIONS none at all) and never invoke a storage mutation
\* operation; no step of such a handler changes the storage, and no step at
\* all of such a request that came without a login name does, whatever the
\* response status.
C33_ReadOnlyHandlers ==
    /\ [](\A r \in Reqs :
             req[r].method \in ReadOnlyMethods =>
                 /\ req[r].calls = << >>
                 /\ InLockedSection(r) =>
                        (lock[r] \in {"", "r"} /\ req[r].method # "OPTIONS")
                 /\ Anonymous(r) =>
                        /\ lock[r] \in {"", "r"}
                        /\ lock[r] = "r" => InLockedSection(r)
                        /\ req[r].boot = << >>)
    /\ [][\A r \in Reqs :
             (/\ req[r].method \in ReadOnlyMethods
              /\ Anonymous(r) \/ req[r].pc # "boot_create") =>
                 storage' = storage]_vars

\* a GET without a login name was answered with a stored item under the read
\* lock; the storage is as it was discovered
C33_Witness ==
    \E r \in Reqs :
        /\ req[r].method = "GET"
        /\ req[r].auth /\ Anonymous(r)
        /\ req[r].pc = "ret"
        /\ lock[r] = "r"
        /\ req[r].status = "OK"
        /\ Discover(storage, req[r].path).kind = "item"
        /\ storage = req[r].seen

====
